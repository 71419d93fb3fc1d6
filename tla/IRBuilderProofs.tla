--------------------------- MODULE IRBuilderProofs ---------------------------
(***************************************************************************)
(* Proofs about UseDef, for every set of instructions and every bound, and *)
(* about IRBuilder, for every set of blocks and instructions.              *)
(*                                                                         *)
(* UDInv, the inductive invariant of UseDef, adds to the three invariants  *)
(* of the module that no Use belongs to an instruction that is not         *)
(* constructed yet: that is why the Uses a constructor allocates are new.  *)
(*                                                                         *)
(* PredecessorsComplete relates the last instruction of a block to the     *)
(* useList of another one.  IBInv, the inductive invariant of IRBuilder,   *)
(* adds to UDInv the objects an edge goes through: the nodes on a block's  *)
(* list have the block as parent, and the target slots of a branch are     *)
(* filled with Uses that read blocks and are on lists of blocks            *)
(* (replaceAllUsesWith may make the two differ, but never makes them       *)
(* anything else than blocks).                                             *)
(***************************************************************************)
EXTENDS IRBuilder, BasicLemmas

----------------------------------------------------------------------------
(* UseDef.                                                                 *)

(* Every Use belongs to a constructed instruction.                          *)
UsersExist == \A u \in DOMAIN val : kind[u[1]] # "none"

UDInv == UDTypeOK /\ OneListPerUse /\ DefSeesItsUses /\ UsersExist

(* A constructor fills slots its operandList has, with values.              *)
LEMMA CtorShape ==
  ASSUME NEW k \in Kinds, NEW reserved \in 0 .. MaxReserved,
         NEW ops \in CtorOperands(k), UDTypeOK
  PROVE  /\ CtorNumOperands(k, reserved) \in 0 .. (2 * MaxReserved + 3)
         /\ \A j \in DOMAIN ops : /\ j \in Slot
                                  /\ j <= CtorNumOperands(k, reserved)
                                  /\ ops[j] \in Value
<1> USE KindsAssumption, BoundsAssumption DEF AllKinds
<1>1. CtorNumOperands(k, reserved) \in 0 .. (2 * MaxReserved + 3)
  BY DEF CtorNumOperands
<1>2. /\ \A v \in Operands : v \in Value
      /\ \A v \in Pointers : v \in Value
      /\ \A v \in Block : v \in Value
  BY DEF Operands, Pointers, Value
<1>3. CASE k \in {"alloca", "un", "phi", "retvoid"}
  <2>1. ops = <<>>
    BY <1>3 DEF CtorOperands
  <2> QED BY <2>1, <1>1
<1>4. CASE k \in {"load", "br", "ret"}
  <2>1. \E v \in Value : ops = <<v>>
    BY <1>2, <1>4 DEF CtorOperands
  <2>2. CtorNumOperands(k, reserved) = 1
    BY <1>4 DEF CtorNumOperands
  <2> QED BY <2>1, <2>2, <1>1 DEF Slot
<1>5. CASE k \in {"store", "bin"}
  <2>1. \E v, w \in Value : ops = <<v, w>>
    BY <1>2, <1>5 DEF CtorOperands
  <2>2. CtorNumOperands(k, reserved) = 2
    BY <1>5 DEF CtorNumOperands
  <2> QED BY <2>1, <2>2, <1>1 DEF Slot
<1>6. CASE k = "condbr"
  <2>1. \E v, w, x \in Value : ops = <<v, w, x>>
    BY <1>2, <1>6 DEF CtorOperands
  <2>2. CtorNumOperands(k, reserved) = 3
    BY <1>6 DEF CtorNumOperands
  <2> QED BY <2>1, <2>2, <1>1 DEF Slot
<1> QED BY <1>3, <1>4, <1>5, <1>6

(* setOperand, on slots that are inside operandList and with Uses that were *)
(* never allocated, preserves what relates operands, Uses and lists.        *)
LEMMA SetOperandsLemma ==
  ASSUME UDTypeOK, OneListPerUse, DefSeesItsUses,
         NEW i \in Inst, NEW ops, NEW g \in Gen,
         \A j \in DOMAIN ops : j \in Slot /\ ops[j] \in Value,
         \A j \in DOMAIN ops : <<i, j, g>> \notin DOMAIN val,
         SetOperands(i, ops, g), target' = target
  PROVE  /\ DOMAIN val' = DOMAIN val \cup {<<i, j, g>> : j \in DOMAIN ops}
         /\ operand' \in [Inst -> [Slot -> Use \cup {NullUse}]]
         /\ DOMAIN val' \subseteq Use
         /\ val' \in [DOMAIN val' -> Value]
         /\ useList' \in [Value -> SUBSET Use]
         /\ OneListPerUse'
         /\ DefSeesItsUses'
<1> DEFINE new == {<<i, j, g>> : j \in DOMAIN ops}
<1>1. /\ DOMAIN val' = DOMAIN val \cup new
      /\ \A u \in new : val'[u] = ops[u[2]]
      /\ \A u \in DOMAIN val : val'[u] = val[u]
      /\ \A v \in Value : useList'[v] = useList[v] \cup {u \in new : ops[u[2]] = v}
      /\ new \cap DOMAIN val = {}
      /\ val' = [u \in DOMAIN val' |-> val'[u]]
      /\ useList' = [v \in Value |-> useList'[v]]
  BY DEF SetOperands
<1>2. \A u \in new : u \in Use /\ ops[u[2]] \in Value
  BY DEF Use
<1>3. operand' \in [Inst -> [Slot -> Use \cup {NullUse}]]
  <2>1. \A k \in Slot : k \in DOMAIN ops => <<i, k, g>> \in Use
    BY DEF Use
  <2> QED BY <2>1 DEF SetOperands, UDTypeOK
<1>4. DOMAIN val' \subseteq Use /\ val' \in [DOMAIN val' -> Value]
  BY <1>1, <1>2 DEF UDTypeOK
<1>5. useList' \in [Value -> SUBSET Use]
  BY <1>1, <1>2 DEF UDTypeOK
<1>6. OneListPerUse'
  <2>1. \A v \in Value : useList'[v] \subseteq DOMAIN val'
    BY <1>1 DEF OneListPerUse
  <2>2. \A u \in DOMAIN val' : \E v \in Value : u \in useList'[v]
    <3> TAKE u \in DOMAIN val'
    <3>1. CASE u \in DOMAIN val
      BY <3>1, <1>1 DEF OneListPerUse
    <3>2. CASE u \in new
      BY <3>2, <1>1, <1>2
    <3> QED BY <3>1, <3>2, <1>1
  <2>3. \A v, w \in Value : v # w => useList'[v] \cap useList'[w] = {}
    <3> SUFFICES ASSUME NEW v \in Value, NEW w \in Value, v # w,
                        NEW u \in useList'[v] \cap useList'[w]
                 PROVE  FALSE
      OBVIOUS
    <3>1. CASE u \in new
      BY <3>1, <1>1 DEF OneListPerUse
    <3>2. CASE u \notin new
      BY <3>2, <1>1 DEF OneListPerUse
    <3> QED BY <3>1, <3>2
  <2> QED BY <2>1, <2>2, <2>3 DEF OneListPerUse
<1>7. DefSeesItsUses'
  <2> SUFFICES ASSUME NEW u \in DOMAIN val', val'[u] \notin target
               PROVE  u \in useList'[val'[u]]
    BY DEF DefSeesItsUses
  <2>1. CASE u \in new
    BY <2>1, <1>1, <1>2
  <2>2. CASE u \in DOMAIN val
    <3>1. val'[u] = val[u] /\ val[u] \in Value
      BY <2>2, <1>1 DEF UDTypeOK
    <3>2. u \in useList[val[u]]
      BY <2>2, <3>1 DEF DefSeesItsUses
    <3> QED BY <3>1, <3>2, <1>1
  <2> QED BY <2>1, <2>2, <1>1
<1> QED BY <1>1, <1>3, <1>4, <1>5, <1>6, <1>7

LEMMA UDInitInv == UDInit => UDInv
<1> SUFFICES ASSUME UDInit PROVE UDInv
  OBVIOUS
<1> USE DEF UDInit
<1>1. DOMAIN val = {}
  OBVIOUS
<1>2. UDTypeOK
  BY <1>1, BoundsAssumption DEF UDTypeOK
<1>3. OneListPerUse
  BY <1>1 DEF OneListPerUse
<1>4. DefSeesItsUses /\ UsersExist
  BY <1>1 DEF DefSeesItsUses, UsersExist
<1> QED BY <1>2, <1>3, <1>4 DEF UDInv

LEMMA ConstructInv ==
  ASSUME UDInv, NEW i \in Inst, NEW k \in Kinds,
         NEW reserved \in 0 .. MaxReserved, NEW ops \in CtorOperands(k),
         Construct(i, k, reserved, ops)
  PROVE  UDInv'
<1> USE DEF UDInv
<1>1. /\ CtorNumOperands(k, reserved) \in 0 .. (2 * MaxReserved + 3)
      /\ \A j \in DOMAIN ops : /\ j \in Slot
                               /\ j <= CtorNumOperands(k, reserved)
                               /\ ops[j] \in Value
  BY CtorShape
<1>2. /\ kind[i] = "none" /\ k \in AllKinds /\ k # "none"
      /\ kind' = [kind EXCEPT ![i] = k]
      /\ numOperands' = [numOperands EXCEPT ![i] = CtorNumOperands(k, reserved)]
      /\ SetOperands(i, ops, 1)
      /\ UNCHANGED <<status, target, edits>>
  BY KindsAssumption DEF Construct, AllKinds
<1>3. 1 \in Gen
  BY BoundsAssumption DEF Gen
<1>4. \A j \in DOMAIN ops : <<i, j, 1>> \notin DOMAIN val
  BY <1>2 DEF UsersExist
<1>5. /\ DOMAIN val' = DOMAIN val \cup {<<i, j, 1>> : j \in DOMAIN ops}
      /\ operand' \in [Inst -> [Slot -> Use \cup {NullUse}]]
      /\ DOMAIN val' \subseteq Use
      /\ val' \in [DOMAIN val' -> Value]
      /\ useList' \in [Value -> SUBSET Use]
      /\ OneListPerUse'
      /\ DefSeesItsUses'
  BY <1>1, <1>2, <1>3, <1>4, SetOperandsLemma
<1>6. UsersExist'
  <2> SUFFICES ASSUME NEW u \in DOMAIN val' PROVE kind'[u[1]] # "none"
    BY DEF UsersExist
  <2>1. CASE u \in DOMAIN val
    BY <2>1, <1>2 DEF UsersExist, UDTypeOK, Use
  <2>2. CASE u \notin DOMAIN val
    BY <2>2, <1>2, <1>5 DEF UDTypeOK
  <2> QED BY <2>1, <2>2
<1>7. ASSUME NEW a \in Inst, NEW b \in Slot, operand'[a][b] # NullUse
      PROVE  /\ b <= numOperands'[a]
             /\ \E g \in Gen : operand'[a][b] = <<a, b, g>>
             /\ operand'[a][b] \in DOMAIN val'
  <2>1. CASE a # i
    <3>1. operand'[a][b] = operand[a][b] /\ numOperands'[a] = numOperands[a]
      BY <2>1, <1>2 DEF SetOperands, UDTypeOK
    <3> QED BY <3>1, <1>5, <1>7 DEF UDTypeOK
  <2>2. CASE a = i
    <3>1. operand[i][b] = NullUse
      BY <1>2 DEF UDTypeOK, UsersExist
    <3>2. operand'[i][b] = IF b \in DOMAIN ops THEN <<i, b, 1>> ELSE operand[i][b]
      BY <1>2 DEF SetOperands, UDTypeOK
    <3>3. b \in DOMAIN ops /\ operand'[i][b] = <<i, b, 1>>
      BY <3>1, <3>2, <2>2, <1>7
    <3>4. numOperands'[i] = CtorNumOperands(k, reserved)
      BY <1>2 DEF UDTypeOK
    <3> QED BY <3>3, <3>4, <2>2, <1>1, <1>3, <1>5
  <2> QED BY <2>1, <2>2
<1>8. UDTypeOK'
  <2>1. kind' \in [Inst -> AllKinds \cup {"none"}]
    BY <1>2 DEF UDTypeOK
  <2>2. numOperands' \in [Inst -> 0 .. (2 * MaxReserved + 3)]
    BY <1>1, <1>2 DEF UDTypeOK
  <2>3. /\ status' \in {"running", "aborted"}
        /\ target' \subseteq Value /\ edits' \in 0 .. MaxEdits
    BY <1>2 DEF UDTypeOK
  <2> QED BY <2>1, <2>2, <2>3, <1>5, <1>7 DEF UDTypeOK
<1> QED BY <1>5, <1>6, <1>8

(* setOperand on slots of a constructed instruction, by whichever caller.   *)
LEMMA EditInv ==
  ASSUME UDInv, NEW i \in Inst, kind[i] # "none", NEW ops, NEW g \in Gen,
         \A j \in DOMAIN ops : /\ j \in Slot /\ j <= numOperands[i]
                              /\ ops[j] \in Value
                              /\ <<i, j, g>> \notin DOMAIN val,
         SetOperands(i, ops, g),
         UNCHANGED <<kind, numOperands, target>>,
         status' \in {"running", "aborted"}, edits' \in 0 .. MaxEdits
  PROVE  UDInv'
<1> USE DEF UDInv
<1>1. /\ DOMAIN val' = DOMAIN val \cup {<<i, j, g>> : j \in DOMAIN ops}
      /\ operand' \in [Inst -> [Slot -> Use \cup {NullUse}]]
      /\ DOMAIN val' \subseteq Use
      /\ val' \in [DOMAIN val' -> Value]
      /\ useList' \in [Value -> SUBSET Use]
      /\ OneListPerUse'
      /\ DefSeesItsUses'
  BY SetOperandsLemma
<1>2. UsersExist'
  BY <1>1 DEF UsersExist
<1>3. ASSUME NEW a \in Inst, NEW b \in Slot, operand'[a][b] # NullUse
      PROVE  /\ b <= numOperands'[a]
             /\ \E h \in Gen : operand'[a][b] = <<a, b, h>>
             /\ operand'[a][b] \in DOMAIN val'
  <2>1. CASE a = i /\ b \in DOMAIN ops
    <3>1. operand'[a][b] = <<i, b, g>>
      BY <2>1 DEF SetOperands, UDTypeOK
    <3> QED BY <3>1, <2>1, <1>1
  <2>2. CASE ~(a = i /\ b \in DOMAIN ops)
    <3>1. operand'[a][b] = operand[a][b]
      BY <2>2 DEF SetOperands, UDTypeOK
    <3> QED BY <3>1, <1>1, <1>3 DEF UDTypeOK
  <2> QED BY <2>1, <2>2
<1>4. UDTypeOK'
  BY <1>1, <1>3 DEF UDTypeOK
<1> QED BY <1>1, <1>2, <1>4

LEMMA ReplaceInv ==
  ASSUME UDInv, NEW v \in Value, NEW w \in Value, ReplaceAllUsesWith(v, w)
  PROVE  UDInv'
<1> USE DEF UDInv
<1>1. /\ val' = [u \in DOMAIN val |-> IF u \in useList[v] THEN w ELSE val[u]]
      /\ target' = target \cup {w}
      /\ UNCHANGED <<kind, numOperands, operand, useList, status>>
      /\ edits < MaxEdits /\ edits' = edits + 1
  BY DEF ReplaceAllUsesWith, Edit
<1>2. DOMAIN val' = DOMAIN val
  BY <1>1
<1>3. edits' \in 0 .. MaxEdits
  BY <1>1, BoundsAssumption DEF UDTypeOK
<1>4. val' \in [DOMAIN val' -> Value]
  BY <1>1, <1>2 DEF UDTypeOK
<1>5. UDTypeOK'
  BY <1>1, <1>2, <1>3, <1>4 DEF UDTypeOK
<1>6. OneListPerUse'
  BY <1>1, <1>2 DEF OneListPerUse
<1>7. DefSeesItsUses'
  BY <1>1, <1>2 DEF DefSeesItsUses
<1>8. UsersExist'
  BY <1>1, <1>2 DEF UsersExist
<1> QED BY <1>5, <1>6, <1>7, <1>8

LEMMA AddIncomingInv ==
  ASSUME UDInv, NEW i \in Inst, NEW v \in Value, NEW b \in Block,
         AddIncoming(i, v, b)
  PROVE  UDInv'
<1> USE DEF UDInv
<1>1. /\ kind[i] = "phi" /\ edits' \in 0 .. MaxEdits
      /\ UNCHANGED <<kind, numOperands, target>>
  BY BoundsAssumption DEF AddIncoming, Edit, UDTypeOK
<1>2. CASE IncomingValueOk(i, 0)
  <2>1. /\ numOperands[i] \in 0 .. (2 * MaxReserved + 3)
        /\ 0 < numOperands[i] \div 2
    BY <1>2 DEF IncomingValueOk, UDTypeOK
  <2>2. ~IncomingBlockOk(i, 0)
    BY <2>1, BoundsAssumption DEF IncomingBlockOk
  <2>3. PICK g \in Gen : /\ IsFresh(i, 1, g)
                         /\ SetOperands(i, [k \in {1} |-> v], g)
                         /\ status' = "aborted"
    <3>1. \A blockSlot :
            [k \in {1} |-> IF k = 1 THEN v ELSE b] = [k \in {1} |-> v]
      OBVIOUS
    <3> QED BY <1>2, <2>2, <3>1 DEF AddIncoming
  <2>4. 1 \in Slot /\ 1 <= numOperands[i]
    BY <2>1, BoundsAssumption DEF Slot
  <2>5. \A j \in DOMAIN [k \in {1} |-> v] :
          /\ j \in Slot /\ j <= numOperands[i]
          /\ [k \in {1} |-> v][j] \in Value
          /\ <<i, j, g>> \notin DOMAIN val
    BY <2>3, <2>4 DEF IsFresh
  <2> QED BY <1>1, <2>3, <2>5, EditInv
<1>3. CASE ~IncomingValueOk(i, 0)
  <2>1. status' = "aborted" /\ UNCHANGED <<operand, val, useList>>
    BY <1>3 DEF AddIncoming
  <2>2. UDTypeOK'
    BY <1>1, <2>1 DEF UDTypeOK
  <2> QED BY <1>1, <2>1, <2>2 DEF OneListPerUse, DefSeesItsUses, UsersExist
<1> QED BY <1>2, <1>3

(* setOperand of one slot, with any value.                                  *)
LEMMA SetOperandInv ==
  ASSUME UDInv, NEW i \in Inst, NEW k \in Slot, NEW v \in Value, SetOperand(i, k, v)
  PROVE  UDInv'
<1>1. PICK g \in Gen : IsFresh(i, k, g) /\ SetOperands(i, [j \in {k} |-> v], g)
  BY DEF SetOperand
<1>2. /\ kind[i] # "none" /\ k \in 1 .. numOperands[i]
      /\ UNCHANGED <<kind, numOperands, target, status>>
      /\ edits < MaxEdits /\ edits' = edits + 1
  BY DEF SetOperand, Created, Edit
<1>3. /\ k <= numOperands[i]
      /\ status' \in {"running", "aborted"} /\ edits' \in 0 .. MaxEdits
  BY <1>2, BoundsAssumption DEF UDInv, UDTypeOK
<1>4. \A j \in DOMAIN [j \in {k} |-> v] :
        /\ j \in Slot /\ j <= numOperands[i]
        /\ [j2 \in {k} |-> v][j] \in Value
        /\ <<i, j, g>> \notin DOMAIN val
  BY <1>1, <1>3 DEF IsFresh
<1> QED BY <1>1, <1>2, <1>3, <1>4, EditInv

LEMMA UDNextInv == UDInv /\ [UDNext]_udvars => UDInv'
<1> SUFFICES ASSUME UDInv, [UDNext]_udvars PROVE UDInv'
  OBVIOUS
<1>0. /\ Operands \subseteq Value
      /\ Created \cup Other \subseteq Value
  BY DEF Operands, Created, Value
<1>1. CASE \E i \in Inst, k \in Kinds, reserved \in 0 .. MaxReserved :
             \E ops \in CtorOperands(k) : Construct(i, k, reserved, ops)
  BY <1>1, ConstructInv
<1>2. CASE \E i \in Inst, k \in Slot, v \in Operands : SetOperand(i, k, v)
  BY <1>0, <1>2, SetOperandInv
<1>3. CASE \E v \in Operands, w \in Created \cup Other : ReplaceAllUsesWith(v, w)
  BY <1>0, <1>3, ReplaceInv
<1>4. CASE \E i \in Inst, v \in Operands, b \in Block : AddIncoming(i, v, b)
  BY <1>0, <1>4, AddIncomingInv
<1>5. CASE \E v, w \in Block : ReplaceAllUsesWith(v, w)
  <2>1. Block \subseteq Value
    BY DEF Value
  <2> QED BY <2>1, <1>5, ReplaceInv
<1>6. CASE UNCHANGED udvars
  BY <1>6 DEF udvars, UDInv, UDTypeOK, OneListPerUse, DefSeesItsUses, UsersExist
<1> QED BY <1>1, <1>2, <1>3, <1>4, <1>5, <1>6 DEF UDNext

(* The inductive invariant holds in every run.                              *)
THEOREM UDInvariant == UDSpec => []UDInv
<1> QED BY UDInitInv, UDNextInv, PTL DEF UDSpec

(* In every run, the operand slots and the use lists have their types and a *)
(* filled slot is inside operandList and holds a Use made for it.           *)
THEOREM TypeCorrect == UDSpec => []UDTypeOK
<1>1. UDInv => UDTypeOK
  BY DEF UDInv
<1> QED BY <1>1, UDInvariant, PTL

(* In every run, each allocated Use is on exactly one use list.             *)
THEOREM UsesOnOneList == UDSpec => []OneListPerUse
<1>1. UDInv => OneListPerUse
  BY DEF UDInv
<1> QED BY <1>1, UDInvariant, PTL

(* In every run, the use list of a value that never replaced another one    *)
(* holds every Use that reads the value.                                    *)
THEOREM DefsSeeTheirUses == UDSpec => []DefSeesItsUses
<1>1. UDInv => DefSeesItsUses
  BY DEF UDInv
<1> QED BY <1>1, UDInvariant, PTL

(* In every run, replacing a value that never replaced another one leaves   *)
(* no Use that reads it.                                                    *)
THEOREM ReplacementsAreTotal == UDSpec => ReplacementIsTotal
<1>1. ASSUME UDInv, NEW v \in Value \ target, NEW w \in Value,
             ReplaceAllUsesWith(v, w), v # w, NEW u \in DOMAIN val'
      PROVE  val'[u] # v
  <2>1. u \in DOMAIN val /\ val'[u] = IF u \in useList[v] THEN w ELSE val[u]
    BY <1>1 DEF ReplaceAllUsesWith
  <2> QED BY <1>1, <2>1 DEF UDInv, DefSeesItsUses
<1>2. UDInv => [\A v \in Value \ target, w \in Value :
                  ReplaceAllUsesWith(v, w) /\ v # w =>
                    \A u \in DOMAIN val' : val'[u] # v]_udvars
  BY <1>1
<1> QED BY <1>2, UDInvariant, PTL DEF UDSpec, ReplacementIsTotal

----------------------------------------------------------------------------
(* IRBuilder.                                                              *)

(* The instructions that may be on the list of b.                           *)
OwnedBy(b) == {i \in Created : instParent[i] = b}

NodesOwned == \A b \in Block : instList[b] \in Seq(OwnedBy(b))

TargetsFilled ==
  \A i \in Inst : \A k \in 1 .. NumSuccessors(kind[i]) :
    /\ operand[i][k] # NullUse
    /\ val[operand[i][k]] \in Block
    /\ \E s \in Block : operand[i][k] \in useList[s]

IBInv ==
  /\ UDInv
  /\ IBTypeOK
  /\ NodesOwned
  /\ TargetsFilled

LEMMA SuccessorCount ==
  \A k : /\ NumSuccessors(k) \in 0 .. 2
         /\ k = "none" => NumSuccessors(k) = 0
         /\ k = "br" => NumSuccessors(k) = 1
         /\ k = "condbr" => NumSuccessors(k) = 2
         /\ k \notin {"br", "condbr"} => NumSuccessors(k) = 0
BY DEF NumSuccessors

LEMMA TargetSlots == 1 .. 2 \subseteq Slot
BY BoundsAssumption DEF Slot

(* The Use in a filled slot.                                                *)
LEMMA FilledSlot ==
  ASSUME UDTypeOK, NEW i \in Inst, NEW k \in Slot, operand[i][k] # NullUse
  PROVE  \E g \in Gen : operand[i][k] = <<i, k, g>> /\ <<i, k, g>> \in DOMAIN val
<1>1. PICK g \in Gen : operand[i][k] = <<i, k, g>>
  BY DEF UDTypeOK
<1>2. operand[i][k] \in DOMAIN val
  BY DEF UDTypeOK
<1> QED BY <1>1, <1>2

(* A branch is used by the blocks it can go to: the edge seen from its end. *)
LEMMA InvImpliesComplete == IBInv => PredecessorsComplete
<1> SUFFICES ASSUME IBInv, NEW b \in Block, NEW s \in Successors(b) \ target
             PROVE  b \in Predecessors(s)
  BY DEF PredecessorsComplete
<1> DEFINE t == Last(instList[b])
<1>1. HasTerminator(b)
  BY DEF Successors
<1>2. t \in OwnedBy(b)
  BY <1>1, LastIn DEF IBInv, NodesOwned, HasTerminator
<1>3. t \in Inst /\ instParent[t] = b
  BY <1>2 DEF OwnedBy, Created
<1>4. PICK k \in 1 .. NumSuccessors(kind[t]) : s = val[operand[t][k]]
  BY <1>1 DEF Successors
<1>5. k \in Slot
  BY <1>4, SuccessorCount, TargetSlots
<1>6. operand[t][k] # NullUse /\ s \in Block
  BY <1>3, <1>4 DEF IBInv, TargetsFilled
<1>7. PICK g \in Gen : operand[t][k] = <<t, k, g>> /\ <<t, k, g>> \in DOMAIN val
  BY <1>3, <1>5, <1>6, FilledSlot DEF IBInv, UDInv
<1>8. <<t, k, g>> \in useList[s]
  BY <1>4, <1>6, <1>7 DEF IBInv, UDInv, DefSeesItsUses
<1>9. IsTerminator(kind[<<t, k, g>>[1]]) /\ instParent[<<t, k, g>>[1]] = b
  BY <1>1, <1>3 DEF HasTerminator
<1> QED BY <1>8, <1>9 DEF Predecessors

LEMMA IBInitInv == IBInit => IBInv
<1> SUFFICES ASSUME IBInit PROVE IBInv
  OBVIOUS
<1>1. UDInit /\ UDInv
  BY UDInitInv DEF IBInit
<1>2. IBTypeOK
  BY EmptySeq DEF IBInit, IBTypeOK
<1>3. NodesOwned
  BY EmptySeq DEF IBInit, NodesOwned
<1>4. TargetsFilled
  <2>1. \A i \in Inst : NumSuccessors(kind[i]) = 0
    BY <1>1, SuccessorCount DEF UDInit
  <2> QED BY <2>1 DEF TargetsFilled
<1> QED BY <1>1, <1>2, <1>3, <1>4 DEF IBInv

(* The lists after the instruction i was inserted for the builder.          *)
LEMMA InsertNodes ==
  ASSUME IBTypeOK, NodesOwned, NEW B \in Block, insertBlock = B, NEW i \in Inst, i \notin Created,
         Created' = Created \cup {i}, InsertAtPoint(i)
  PROVE  /\ instParent' = [instParent EXCEPT ![i] = B]
         /\ instList' \in [Block -> Seq(Created')]
         /\ NodesOwned'
<1> DEFINE list == instList[B]
<1>1. instParent' = [instParent EXCEPT ![i] = B]
  BY DEF InsertAtPoint, SL!InsertInst
<1>2. /\ instList \in [Block -> Seq(Created)]
      /\ instParent \in [Inst -> Block \cup {NoParent}]
  BY DEF IBTypeOK
<1>3. /\ \A b \in Block : OwnedBy(b) \subseteq OwnedBy(b)'
      /\ i \in OwnedBy(B)'
      /\ \A b \in Block : OwnedBy(b)' \subseteq Created'
  <2>1. \A b : OwnedBy(b)' = {j \in Created \cup {i} : instParent'[j] = b}
    BY DEF OwnedBy
  <2>2. \A j \in Created : j \in Inst /\ j # i
    BY DEF Created
  <2>3. \A j \in Created : instParent'[j] = instParent[j]
    BY <1>1, <1>2, <2>2
  <2>4. instParent'[i] = B
    BY <1>1, <1>2
  <2> QED BY <2>1, <2>3, <2>4 DEF OwnedBy
<1>4. \/ \E p \in 1 .. Len(list) + 1 :
           instList' = [instList EXCEPT ![B] = InsertAt(list, p, i)]
      \/ instList' = instList
  <2>1. list \in Seq(Created)
    BY <1>2
  <2>2. Len(list) + 1 \in 1 .. Len(list) + 1 /\ DOMAIN list \subseteq 1 .. Len(list) + 1
    BY <2>1, LenProperties
  <2>3. \A p : SL!InsertInst(B, p, i) =>
                 instList' = [instList EXCEPT ![B] = InsertAt(list, p, i)]
    BY DEF SL!InsertInst, SL!InsertAt, InsertAt
  <2>4. \/ SL!InsertInst(B, Len(list) + 1, i)
        \/ \E p \in DOMAIN list : SL!InsertInst(B, p, i)
        \/ instList' = instList
    BY DEF InsertAtPoint
  <2> QED BY <2>2, <2>3, <2>4
<1>5. /\ instList' = [b \in Block |-> instList'[b]]
      /\ \A b \in Block : instList'[b] \in Seq(OwnedBy(b)')
  <2>1. ASSUME NEW b \in Block PROVE instList[b] \in Seq(OwnedBy(b)')
    BY <1>3, SeqMonotonic DEF NodesOwned
  <2>2. ASSUME NEW p \in 1 .. Len(list) + 1
        PROVE  InsertAt(list, p, i) \in Seq(OwnedBy(B)')
    <3>1. list \in Seq(OwnedBy(B)) /\ OwnedBy(B) \subseteq OwnedBy(B)'
      BY <1>3 DEF NodesOwned
    <3> QED BY <3>1, <1>3, InsertAtNodes
  <2> QED BY <1>2, <1>4, <2>1, <2>2
<1>6. instList' \in [Block -> Seq(Created')]
  <2>1. ASSUME NEW b \in Block PROVE instList'[b] \in Seq(Created')
    BY <1>3, <1>5, SeqMonotonic
  <2> QED BY <1>5, <2>1
<1> QED BY <1>1, <1>5, <1>6 DEF NodesOwned

(* A constructed branch has its targets filled, and no other instruction    *)
(* changes.                                                                 *)
LEMMA ConstructTargets ==
  ASSUME IBInv, NEW i \in Inst, NEW k \in Kinds, NEW reserved \in 0 .. MaxReserved,
         NEW ops \in CtorOperands(k), Construct(i, k, reserved, ops)
  PROVE  TargetsFilled'
<1> USE DEF IBInv, UDInv
<1>1. kind[i] = "none" /\ kind' = [kind EXCEPT ![i] = k] /\ SetOperands(i, ops, 1)
  BY DEF Construct
<1> SUFFICES ASSUME NEW a \in Inst, NEW j \in 1 .. NumSuccessors(kind'[a])
             PROVE  /\ operand'[a][j] # NullUse
                    /\ val'[operand'[a][j]] \in Block
                    /\ \E s \in Block : operand'[a][j] \in useList'[s]
  BY DEF TargetsFilled
<1>2. j \in Slot
  BY SuccessorCount, TargetSlots
<1>3. CASE a # i
  <2>1. kind'[a] = kind[a] /\ operand'[a][j] = operand[a][j]
    BY <1>1, <1>2, <1>3 DEF SetOperands, UDTypeOK
  <2>2. /\ operand[a][j] # NullUse /\ val[operand[a][j]] \in Block
        /\ \E s \in Block : operand[a][j] \in useList[s]
    BY <2>1 DEF TargetsFilled
  <2>3. PICK g \in Gen : operand[a][j] = <<a, j, g>> /\ <<a, j, g>> \in DOMAIN val
    BY <1>2, <2>2, FilledSlot
  <2>4. val'[<<a, j, g>>] = val[<<a, j, g>>]
    BY <1>1, <1>3, <2>3 DEF SetOperands
  <2>5. \A s \in Block : useList[s] \subseteq useList'[s]
    BY <1>1 DEF SetOperands, Value
  <2> QED BY <2>1, <2>2, <2>3, <2>4, <2>5
<1>4. CASE a = i
  <2>1. kind'[a] = k
    BY <1>1, <1>4 DEF UDTypeOK
  <2>2. j \in DOMAIN ops /\ ops[j] \in Block
    <3>1. CASE k = "br"
      <4>1. \E b \in Block : ops = <<b>>
        BY <3>1 DEF CtorOperands
      <4>2. j = 1
        BY <2>1, <3>1, SuccessorCount
      <4> QED BY <4>1, <4>2
    <3>2. CASE k = "condbr"
      <4>1. ops \in Block \X Block \X Operands
        BY <3>2 DEF CtorOperands
      <4>2. j \in 1 .. 2
        BY <2>1, <3>2, SuccessorCount
      <4> QED BY <4>1, <4>2
    <3>3. CASE k \notin {"br", "condbr"}
      BY <2>1, <3>3, SuccessorCount
    <3> QED BY <3>1, <3>2, <3>3
  <2>3. operand'[i][j] = <<i, j, 1>> /\ <<i, j, 1>> \in Use
    BY <1>1, <1>2, <2>2, BoundsAssumption DEF SetOperands, UDTypeOK, Use, Gen
  <2>4. val'[<<i, j, 1>>] = ops[j] /\ <<i, j, 1>> \in useList'[ops[j]]
    BY <1>1, <2>2 DEF SetOperands, Value
  <2> QED BY <1>4, <2>2, <2>3, <2>4, NullAssumption
<1> QED BY <1>3, <1>4

LEMMA CreateInv ==
  ASSUME IBInv, NEW i \in Inst, NEW k \in Kinds, NEW reserved \in 0 .. MaxReserved,
         NEW ops \in CtorOperands(k), Create(i, k, reserved, ops)
  PROVE  IBInv'
<1>1. /\ UDInv /\ IBTypeOK /\ NodesOwned
      /\ Construct(i, k, reserved, ops)
      /\ UNCHANGED <<insertBlock, insertPt, retargeted>>
  BY DEF IBInv, Create
<1>2. /\ kind[i] = "none" /\ k # "none"
      /\ kind' = [kind EXCEPT ![i] = k] /\ target' = target
  BY <1>1, KindsAssumption DEF Construct, AllKinds
<1>3. i \notin Created /\ Created' = Created \cup {i}
  BY <1>1, <1>2 DEF Created, UDInv, UDTypeOK
<1>4. UDInv'
  BY <1>1, ConstructInv
<1>5. TargetsFilled'
  BY <1>1, ConstructTargets
<1>6. CASE insertBlock = NoParent
  <2>1. UNCHANGED <<instList, instParent>>
    BY <1>6 DEF Create
  <2>2. \A b \in Block : OwnedBy(b) \subseteq OwnedBy(b)'
    BY <1>3, <2>1 DEF OwnedBy
  <2>3. NodesOwned'
    BY <1>1, <2>1, <2>2, SeqMonotonic DEF NodesOwned
  <2>4. instList' \in [Block -> Seq(Created')]
    BY <1>1, <1>3, <2>1, SeqMonotonic DEF IBTypeOK
  <2>5. IBTypeOK'
    BY <1>1, <1>3, <2>1, <2>4 DEF IBTypeOK
  <2> QED BY <1>1, <1>2, <1>4, <1>5, <2>3, <2>5 DEF IBInv
<1>7. CASE insertBlock # NoParent
  <2>1. PICK B \in Block : insertBlock = B
    BY <1>1, <1>7 DEF IBTypeOK
  <2>2. InsertAtPoint(i)
    BY <1>7 DEF Create
  <2>3. /\ instParent' = [instParent EXCEPT ![i] = B]
        /\ instList' \in [Block -> Seq(Created')]
        /\ NodesOwned'
    BY <1>1, <1>3, <2>1, <2>2, InsertNodes
  <2>4. IBTypeOK'
    BY <1>1, <1>3, <2>3 DEF IBTypeOK
  <2> QED BY <1>1, <1>2, <1>4, <1>5, <2>3, <2>4 DEF IBInv
<1> QED BY <1>6, <1>7

(* The calls that only move the insertion point.                            *)
LEMMA InsertPointInv ==
  ASSUME IBInv, UNCHANGED <<udvars, instList, instParent, retargeted>>,
         insertBlock' \in Block, insertPt' \in Inst \cup {End},
         insertPt' # End => insertPt' \in Created /\ instParent[insertPt'] = insertBlock'
  PROVE  IBInv'
<1>1. Created' = Created
  BY DEF udvars, Created
<1>2. UDInv'
  BY DEF IBInv, udvars, UDInv, UDTypeOK, OneListPerUse, DefSeesItsUses, UsersExist
<1>3. IBTypeOK'
  BY <1>1 DEF IBInv, IBTypeOK
<1>4. NodesOwned' /\ TargetsFilled'
  BY <1>1 DEF IBInv, udvars, NodesOwned, OwnedBy, TargetsFilled
<1> QED BY <1>2, <1>3, <1>4 DEF IBInv

LEMMA RemoveInv ==
  ASSUME IBInv, NEW i \in Inst, RemoveFromParent(i)
  PROVE  IBInv'
<1> DEFINE B == instParent[i]
           list == instList[B]
<1>1. /\ UNCHANGED <<udvars, insertBlock, insertPt, retargeted, instParent>>
      /\ B # NoParent
      /\ instList' = [instList EXCEPT ![B] = SL!Unlink(list, i)]
  BY DEF RemoveFromParent, SL!RemoveInst
<1>2. /\ instList \in [Block -> Seq(Created)] /\ B \in Block
      /\ Created' = Created
  BY <1>1 DEF IBInv, IBTypeOK, udvars, Created
<1>3. ASSUME NEW S, NEW s \in Seq(S) PROVE SL!Unlink(s, i) \in Seq(S)
  <2>1. CASE SL!Contains(s, i)
    <3> DEFINE p == CHOOSE p \in DOMAIN s : s[p] = i
    <3>1. p \in 1 .. Len(s)
      BY <2>1, LenProperties DEF SL!Contains
    <3>2. RemoveAt(s, p) \in Seq(S)
      BY <3>1, RemoveAtNodes
    <3> QED BY <2>1, <3>2 DEF SL!Unlink, SL!RemoveAt, RemoveAt
  <2>2. CASE ~SL!Contains(s, i)
    BY <2>2 DEF SL!Unlink
  <2> QED BY <2>1, <2>2
<1>4. \A b : OwnedBy(b)' = OwnedBy(b)
  BY <1>1, <1>2 DEF OwnedBy
<1>5. instList' \in [Block -> Seq(Created')]
  BY <1>1, <1>2, <1>3
<1>6. NodesOwned'
  <2>1. ASSUME NEW b \in Block PROVE instList'[b] \in Seq(OwnedBy(b))
    BY <1>1, <1>2, <1>3 DEF IBInv, NodesOwned
  <2> QED BY <1>4, <2>1 DEF NodesOwned
<1>7. UDInv'
  BY <1>1 DEF IBInv, udvars, UDInv, UDTypeOK, OneListPerUse, DefSeesItsUses, UsersExist
<1>8. IBTypeOK'
  BY <1>1, <1>2, <1>5 DEF IBInv, IBTypeOK
<1>9. TargetsFilled'
  BY <1>1 DEF IBInv, udvars, TargetsFilled
<1> QED BY <1>6, <1>7, <1>8, <1>9 DEF IBInv

(* The list structure does not change with the operands.                    *)
LEMMA ListsKept ==
  ASSUME IBInv, UNCHANGED <<kind, instList, instParent, insertBlock, insertPt>>,
         retargeted' \subseteq Created
  PROVE  IBTypeOK' /\ NodesOwned'
<1>1. Created' = Created
  BY DEF Created
<1> QED BY <1>1 DEF IBInv, IBTypeOK, NodesOwned, OwnedBy

LEMMA RetargetInv ==
  ASSUME IBInv, NEW i \in Inst, NEW k \in Slot, NEW b \in Block, Retarget(i, k, b)
  PROVE  IBInv'
<1>1. /\ SetOperand(i, k, b) /\ retargeted' = retargeted \cup {i}
      /\ UNCHANGED <<instList, instParent, insertBlock, insertPt>>
  BY DEF Retarget
<1>2. PICK g \in Gen : IsFresh(i, k, g) /\ SetOperands(i, [j \in {k} |-> b], g)
  BY <1>1 DEF SetOperand
<1>3. i \in Created /\ UNCHANGED <<kind, target>>
  BY <1>1 DEF SetOperand
<1>4. UDInv'
  BY <1>1, SetOperandInv DEF IBInv, Value
<1>5. IBTypeOK' /\ NodesOwned'
  BY <1>1, <1>3, ListsKept DEF IBInv, IBTypeOK
<1>6. TargetsFilled'
  <2> SUFFICES ASSUME NEW a \in Inst, NEW j \in 1 .. NumSuccessors(kind[a])
               PROVE  /\ operand'[a][j] # NullUse
                      /\ val'[operand'[a][j]] \in Block
                      /\ \E s \in Block : operand'[a][j] \in useList'[s]
    BY <1>3 DEF TargetsFilled
  <2>1. j \in Slot
    BY SuccessorCount, TargetSlots
  <2>2. CASE a = i /\ j = k
    <3>1. /\ operand'[i][k] = <<i, k, g>> /\ val'[<<i, k, g>>] = b
          /\ <<i, k, g>> \in useList'[b]
      BY <1>2 DEF SetOperands, IBInv, UDInv, UDTypeOK, Value
    <3>2. <<i, k, g>> # NullUse
      BY NullAssumption DEF Use
    <3> QED BY <2>2, <3>1, <3>2
  <2>3. CASE ~(a = i /\ j = k)
    <3>1. operand'[a][j] = operand[a][j]
      BY <1>2, <2>1, <2>3 DEF SetOperands, IBInv, UDInv, UDTypeOK
    <3>2. /\ operand[a][j] # NullUse /\ val[operand[a][j]] \in Block
          /\ \E s \in Block : operand[a][j] \in useList[s]
      BY DEF IBInv, TargetsFilled
    <3>3. PICK h \in Gen : operand[a][j] = <<a, j, h>> /\ <<a, j, h>> \in DOMAIN val
      BY <2>1, <3>2, FilledSlot DEF IBInv, UDInv
    <3>4. val'[<<a, j, h>>] = val[<<a, j, h>>]
      BY <1>2, <2>3, <3>3 DEF SetOperands
    <3>5. \A s \in Block : useList[s] \subseteq useList'[s]
      BY <1>2 DEF SetOperands, Value
    <3> QED BY <3>1, <3>2, <3>3, <3>4, <3>5
  <2> QED BY <2>2, <2>3
<1> QED BY <1>3, <1>4, <1>5, <1>6 DEF IBInv

(* A target slot's Use is on no list of another class of values, so a block *)
(* in it can only be replaced by a block.                                   *)
LEMMA ReplaceEdgesInv ==
  ASSUME IBInv, NEW v \in Value, NEW w \in Value, v \in Block => w \in Block,
         Replace(v, w)
  PROVE  IBInv'
<1>1. /\ ReplaceAllUsesWith(v, w)
      /\ val' = [u \in DOMAIN val |-> IF u \in useList[v] THEN w ELSE val[u]]
      /\ UNCHANGED <<kind, operand, useList>>
      /\ UNCHANGED <<instList, instParent, insertBlock, insertPt, retargeted>>
  BY DEF Replace, ReplaceAllUsesWith, cfgvars
<1>2. UDInv'
  BY <1>1, ReplaceInv DEF IBInv
<1>3. IBTypeOK' /\ NodesOwned'
  BY <1>1, ListsKept DEF IBInv, IBTypeOK
<1>4. TargetsFilled'
  <2> SUFFICES ASSUME NEW a \in Inst, NEW j \in 1 .. NumSuccessors(kind[a])
               PROVE  /\ operand[a][j] # NullUse
                      /\ val'[operand[a][j]] \in Block
                      /\ \E s \in Block : operand[a][j] \in useList[s]
    BY <1>1 DEF TargetsFilled
  <2>1. j \in Slot
    BY SuccessorCount, TargetSlots
  <2>2. PICK s \in Block : /\ operand[a][j] # NullUse
                           /\ val[operand[a][j]] \in Block
                           /\ operand[a][j] \in useList[s]
    BY DEF IBInv, TargetsFilled
  <2>3. operand[a][j] \in DOMAIN val
    BY <2>1, <2>2, FilledSlot DEF IBInv, UDInv
  <2>4. operand[a][j] \in useList[v] => v \in Block
    BY <2>2 DEF IBInv, UDInv, OneListPerUse, Value
  <2> QED BY <1>1, <2>2, <2>3, <2>4
<1> QED BY <1>2, <1>3, <1>4 DEF IBInv

LEMMA IBNextInv == IBInv /\ [IBNext]_ibvars => IBInv'
<1> SUFFICES ASSUME IBInv, [IBNext]_ibvars PROVE IBInv'
  OBVIOUS
<1>1. CASE \E i \in Inst, k \in Kinds, reserved \in 0 .. MaxReserved :
             \E ops \in CtorOperands(k) : Create(i, k, reserved, ops)
  BY <1>1, CreateInv
<1>2. ASSUME NEW b \in Block, SetInsertPointEnd(b) PROVE IBInv'
  BY <1>2, InsertPointInv DEF SetInsertPointEnd
<1>3. ASSUME NEW i \in Inst, SetInsertPointBefore(i) PROVE IBInv'
  <2>1. /\ UNCHANGED <<udvars, instList, instParent, retargeted>>
        /\ insertBlock' = instParent[i] /\ insertPt' = i
        /\ i \in Created /\ instParent[i] # NoParent
    BY <1>3 DEF SetInsertPointBefore
  <2>2. Created' = Created /\ instParent[i] \in Block
    BY <2>1 DEF udvars, Created, IBInv, IBTypeOK
  <2> QED BY <2>1, <2>2, InsertPointInv
<1>4. CASE \E i \in Inst : RemoveFromParent(i)
  BY <1>4, RemoveInv
<1>5. CASE \E i \in Inst, k \in Slot, b \in Block : Retarget(i, k, b)
  BY <1>5, RetargetInv
<1>6. CASE \E v \in Operands, w \in Created \cup Other : Replace(v, w)
  <2>1. Operands \subseteq Value \ Block /\ Created \cup Other \subseteq Value
    BY DisjointAssumption DEF Operands, Created, Value
  <2> QED BY <1>6, <2>1, ReplaceEdgesInv
<1>7. CASE \E v, w \in Block : Replace(v, w)
  <2>1. Block \subseteq Value
    BY DEF Value
  <2> QED BY <1>7, <2>1, ReplaceEdgesInv
<1>8. CASE UNCHANGED ibvars
  <2>1. UNCHANGED udvars /\ UNCHANGED <<kind, val, operand, useList>>
        /\ UNCHANGED <<instList, instParent, insertBlock, insertPt, retargeted>>
    BY <1>8 DEF ibvars, cfgvars, udvars
  <2>2. UDInv'
    BY <2>1 DEF IBInv, udvars, UDInv, UDTypeOK, OneListPerUse, DefSeesItsUses, UsersExist
  <2>3. IBTypeOK' /\ NodesOwned'
    BY <2>1, ListsKept DEF IBInv, IBTypeOK
  <2>4. TargetsFilled'
    BY <2>1 DEF IBInv, TargetsFilled
  <2> QED BY <2>1, <2>2, <2>3, <2>4 DEF IBInv
<1> QED BY <1>1, <1>2, <1>3, <1>4, <1>5, <1>6, <1>7, <1>8 DEF IBNext

(* The inductive invariant holds in every run of the builder.               *)
THEOREM IBInvariant == IBSpec => []IBInv
<1> QED BY IBInitInv, IBNextInv, PTL DEF IBSpec

(* In every run, the builder's lists and parents have their types and an    *)
(* insertion point that is an instruction has the builder's block as parent.*)
THEOREM IBTypeCorrect == IBSpec => []IBTypeOK
<1>1. IBInv => IBTypeOK
  BY DEF IBInv
<1> QED BY <1>1, IBInvariant, PTL

(* In every run, a block that can be reached from another one has it among  *)
(* its predecessors, unless it took the uses of another block.              *)
THEOREM EdgesSeenFromBothEnds == IBSpec => []PredecessorsComplete
<1> QED BY InvImpliesComplete, IBInvariant, PTL

-----------------------------------------------------------------------------
(* Only branches have blocks on their operand slots, in the target slots;   *)
(* and a branch that was never retargeted still holds the Use it was        *)
(* constructed with.                                                        *)
BlockUsesAreTargets ==
  \A s \in Block : \A u \in useList[s] :
    /\ u[2] \in 1 .. NumSuccessors(kind[u[1]])
    /\ u[1] \notin retargeted => operand[u[1]][u[2]] = u

LEMMA ConstructBlockUses ==
  ASSUME IBInv, BlockUsesAreTargets, NEW i \in Inst, NEW k \in Kinds,
         NEW reserved \in 0 .. MaxReserved, NEW ops \in CtorOperands(k),
         Construct(i, k, reserved, ops), retargeted' = retargeted
  PROVE  BlockUsesAreTargets'
<1> USE DEF IBInv, UDInv
<1>1. /\ kind[i] = "none" /\ kind' = [kind EXCEPT ![i] = k] /\ SetOperands(i, ops, 1)
  BY DEF Construct
<1>2. Operands \cap Block = {} /\ Pointers \cap Block = {}
  BY DisjointAssumption DEF Operands, Pointers
<1>3. ASSUME NEW j \in DOMAIN ops, ops[j] \in Block
      PROVE  j \in 1 .. NumSuccessors(k)
  <2>1. CASE k \in {"alloca", "un", "phi", "retvoid"}
    BY <1>3, <2>1 DEF CtorOperands
  <2>2. CASE k \in {"load", "store", "bin", "ret"}
    <3>1. DOMAIN ops \subseteq {1, 2} /\ \A m \in DOMAIN ops : ops[m] \in Operands \cup Pointers
      BY <2>2 DEF CtorOperands
    <3> QED BY <1>2, <1>3, <3>1
  <2>3. CASE k = "br"
    <3>1. DOMAIN ops = {1}
      BY <2>3 DEF CtorOperands
    <3> QED BY <2>3, <3>1, SuccessorCount
  <2>4. CASE k = "condbr"
    <3>1. DOMAIN ops = {1, 2, 3} /\ ops[3] \in Operands
      BY <2>4 DEF CtorOperands
    <3>2. j \in 1 .. 2
      BY <1>2, <1>3, <3>1
    <3> QED BY <2>4, <3>2, SuccessorCount
  <2> QED BY <2>1, <2>2, <2>3, <2>4, KindsAssumption DEF AllKinds
<1> SUFFICES ASSUME NEW s \in Block, NEW u \in useList'[s]
             PROVE  /\ u[2] \in 1 .. NumSuccessors(kind'[u[1]])
                    /\ u[1] \notin retargeted => operand'[u[1]][u[2]] = u
  BY DEF BlockUsesAreTargets
<1>4. s \in Value /\ kind'[i] = k
  BY <1>1 DEF Value, UDTypeOK
<1>5. CASE u \in useList[s]
  <2>1. u \in DOMAIN val /\ u[1] \in Inst /\ kind[u[1]] # "none" /\ u[2] \in Slot
    BY <1>4, <1>5 DEF OneListPerUse, UsersExist, UDTypeOK, Use, Created
  <2>2. kind'[u[1]] = kind[u[1]] /\ operand'[u[1]][u[2]] = operand[u[1]][u[2]]
    BY <1>1, <2>1 DEF UDTypeOK, SetOperands
  <2> QED BY <1>5, <2>2 DEF BlockUsesAreTargets
<1>6. CASE u \notin useList[s]
  <2>1. PICK j \in DOMAIN ops : u = <<i, j, 1>> /\ ops[j] = s
    BY <1>1, <1>4, <1>6 DEF SetOperands
  <2>2. j \in 1 .. NumSuccessors(k)
    BY <1>3, <2>1
  <2>3. j \in Slot
    BY <2>2, SuccessorCount, TargetSlots
  <2>4. operand'[i][j] = <<i, j, 1>>
    BY <1>1, <2>1, <2>3 DEF SetOperands, UDTypeOK
  <2> QED BY <1>4, <2>1, <2>2, <2>4
<1> QED BY <1>5, <1>6

LEMMA RetargetBlockUses ==
  ASSUME IBInv, BlockUsesAreTargets, NEW i \in Inst, NEW k \in Slot, NEW b \in Block,
         Retarget(i, k, b)
  PROVE  BlockUsesAreTargets'
<1> USE DEF IBInv, UDInv
<1>1. /\ SetOperand(i, k, b) /\ retargeted' = retargeted \cup {i}
      /\ k \in 1 .. NumSuccessors(kind[i])
  BY DEF Retarget
<1>2. PICK g \in Gen : SetOperands(i, [j \in {k} |-> b], g)
  BY <1>1 DEF SetOperand
<1>3. kind' = kind
  BY <1>1 DEF SetOperand
<1> SUFFICES ASSUME NEW s \in Block, NEW u \in useList'[s]
             PROVE  /\ u[2] \in 1 .. NumSuccessors(kind[u[1]])
                    /\ u[1] \notin retargeted' => operand'[u[1]][u[2]] = u
  BY <1>3 DEF BlockUsesAreTargets
<1>4. s \in Value
  BY DEF Value
<1>5. CASE u \in useList[s]
  <2>1. u[1] \in Inst
    BY <1>4, <1>5 DEF OneListPerUse, UDTypeOK, Use
  <2>2. u[1] \notin retargeted' => operand'[u[1]] = operand[u[1]]
    BY <1>1, <1>2, <2>1 DEF UDTypeOK, SetOperands
  <2> QED BY <1>1, <1>5, <2>2 DEF BlockUsesAreTargets
<1>6. CASE u \notin useList[s]
  <2>1. u = <<i, k, g>>
    BY <1>2, <1>4, <1>6 DEF SetOperands
  <2> QED BY <1>1, <2>1
<1> QED BY <1>5, <1>6

LEMMA BlockUsesNext ==
  IBInv /\ BlockUsesAreTargets /\ [IBNext]_ibvars => BlockUsesAreTargets'
<1> SUFFICES ASSUME IBInv, BlockUsesAreTargets, [IBNext]_ibvars
             PROVE  BlockUsesAreTargets'
  OBVIOUS
<1>1. ASSUME UNCHANGED <<useList, kind, operand, retargeted>> PROVE BlockUsesAreTargets'
  BY <1>1 DEF BlockUsesAreTargets
<1>2. CASE \E i \in Inst, k \in Kinds, reserved \in 0 .. MaxReserved :
             \E ops \in CtorOperands(k) : Create(i, k, reserved, ops)
  BY <1>2, ConstructBlockUses DEF Create
<1>3. CASE \E b \in Block : SetInsertPointEnd(b)
  BY <1>1, <1>3 DEF SetInsertPointEnd, udvars
<1>4. CASE \E i \in Inst : SetInsertPointBefore(i) \/ RemoveFromParent(i)
  BY <1>1, <1>4 DEF SetInsertPointBefore, RemoveFromParent, udvars
<1>5. CASE \E i \in Inst, k \in Slot, b \in Block : Retarget(i, k, b)
  BY <1>5, RetargetBlockUses
<1>6. ASSUME NEW v, NEW w, Replace(v, w) PROVE BlockUsesAreTargets'
  BY <1>1, <1>6 DEF Replace, ReplaceAllUsesWith, cfgvars
<1>7. CASE UNCHANGED ibvars
  BY <1>1, <1>7 DEF ibvars, udvars, cfgvars
<1> QED BY <1>2, <1>3, <1>4, <1>5, <1>6, <1>7 DEF IBNext

(* A branch whose block ends with it has an edge to every block it uses.    *)
LEMMA InvImpliesCause == IBInv /\ BlockUsesAreTargets => StalePredecessorsHaveACause
<1> SUFFICES ASSUME IBInv, BlockUsesAreTargets, NEW s \in Block, NEW u \in useList[s],
                    u[1] \notin retargeted, val[u] = s,
                    instList[instParent[u[1]]] # <<>>, Last(instList[instParent[u[1]]]) = u[1]
             PROVE  s \in Successors(instParent[u[1]])
  BY DEF StalePredecessorsHaveACause
<1> DEFINE t == u[1]
           b == instParent[t]
<1>1. u[2] \in 1 .. NumSuccessors(kind[t]) /\ operand[t][u[2]] = u
  BY DEF BlockUsesAreTargets
<1>2. kind[t] \in {"br", "condbr"}
  BY <1>1, SuccessorCount
<1>3. HasTerminator(b)
  BY <1>2 DEF HasTerminator, IsTerminator
<1>4. s = val[operand[t][u[2]]]
  BY <1>1
<1> QED BY <1>1, <1>3, <1>4 DEF Successors

(* In every run, a predecessor without an edge is a branch that has no      *)
(* block or does not end it, that was retargeted, or whose target's uses    *)
(* went to another block.                                                   *)
THEOREM StaleForAReason == IBSpec => []StalePredecessorsHaveACause
<1>1. IBInit => BlockUsesAreTargets
  BY DEF IBInit, UDInit, BlockUsesAreTargets, Value
<1>2. IBSpec => [](IBInv /\ BlockUsesAreTargets)
  BY <1>1, IBInitInv, IBNextInv, BlockUsesNext, PTL DEF IBSpec
<1> QED BY <1>2, InvImpliesCause, PTL
=============================================================================

------------------------------- MODULE SymList -------------------------------
(***************************************************************************)
(* Ownership and names in the IR: the intrusive lists of include/common/   *)
(* dlist.hpp with the callbacks of include/IR/symbolTableListTraits.hpp    *)
(* (a function owns a list of blocks, a block owns a list of instructions),*)
(* the parent pointers, and the ValueSymbolTable each function keeps of the*)
(* names of its blocks and instructions.                                   *)
(*                                                                         *)
(* Every block and instruction object exists from the start, unlinked and  *)
(* unnamed, as its constructor leaves it; a constructor that takes a name  *)
(* ends in setName on the unlinked object.  A name is a sequence: the      *)
(* string it was given, then the numbers makeUniqueName concatenated to it.*)
(* MaxUnique is at most 9, so that each number is one character and equal  *)
(* sequences are equal strings.                                            *)
(***************************************************************************)
EXTENDS Naturals, Sequences, SequencesExt

CONSTANTS
  Func,      (* the functions                                               *)
  Block,     (* the basic block objects                                     *)
  Inst,      (* the instruction objects                                     *)
  VoidInst,  (* the instructions of void type                               *)
  Given,     (* the names setName is called with, <<>> is ""                *)
  MaxUnique, (* bound on ValueSymbolTable::LastUnique                       *)
  MaxNamings,(* bound on the calls of setName                               *)
  NoParent   (* the null parent pointer                                     *)

Named == Block \cup Inst

ASSUME ObjectsAssumption ==
  /\ Block \cap Inst = {} /\ VoidInst \subseteq Inst
  /\ NoParent \notin Func \cup Block
ASSUME BoundsAssumption == MaxUnique \in 0 .. 9 /\ MaxNamings \in Nat

VARIABLES
  blockList,   (* Function::basic_blocks                                    *)
  instList,    (* BasicBlock::InstList                                      *)
  blockParent, (* BasicBlock::parent                                        *)
  instParent,  (* Instruction::parent                                       *)
  name,        (* Value::name                                               *)
  table,       (* ValueSymbolTable::vmap of each function                   *)
  lastUnique,  (* ValueSymbolTable::LastUnique                              *)
  exited,      (* the program called exit or failed an __assert__           *)
  namings,     (* history: the calls counted by MaxNamings                  *)
  renamed,     (* history: values renamed while they had a symbol table     *)
  unlisted     (* history: values inserted without a chance of an entry, or *)
               (* whose entry setName of another value took away            *)

slvars == <<blockList, instList, blockParent, instParent, name, table,
            lastUnique, exited, namings, renamed, unlisted>>

-----------------------------------------------------------------------------
(* getSymTab in Value.cpp: the function whose table a value is named in.    *)
FuncOf(v) ==
  IF v \in Block THEN blockParent[v]
  ELSE IF instParent[v] = NoParent THEN NoParent ELSE blockParent[instParent[v]]

(* A table with the entry n |-> v.                                          *)
WithEntry(tab, n, v) == [m \in DOMAIN tab \cup {n} |-> IF m = n THEN v ELSE tab[m]]
WithoutEntry(tab, n) == [m \in DOMAIN tab \ {n} |-> tab[m]]

(* Slip: makeUniqueName takes the next number without trying the entry.     *)
MakeUniqueNameOnce(f, tab, old, v) ==
  LET u == lastUnique[f] + 1 IN
  /\ u <= MaxUnique
  /\ table' = [table EXCEPT ![f] = WithEntry(tab, Append(old, u), v)]
  /\ name' = [name EXCEPT ![v] = Append(old, u)]
  /\ lastUnique' = [lastUnique EXCEPT ![f] = u]

(* makeUniqueName: the first number after LastUnique that makes old a new   *)
(* name; the entry is made and the value takes the name.                    *)
MakeUniqueName(f, tab, old, v) ==
  \E u \in lastUnique[f] + 1 .. MaxUnique :
    /\ Append(old, u) \notin DOMAIN tab
    /\ \A k \in lastUnique[f] + 1 .. u - 1 : Append(old, k) \in DOMAIN tab
    /\ table' = [table EXCEPT ![f] = WithEntry(tab, Append(old, u), v)]
    /\ name' = [name EXCEPT ![v] = Append(old, u)]
    /\ lastUnique' = [lastUnique EXCEPT ![f] = u]

(* Slip: a taken name is kept, the value has no entry.                      *)
ReinsertValueUnchecked(f, tab, n, v) ==
  /\ table' = [table EXCEPT ![f] = IF n \in DOMAIN tab THEN tab ELSE WithEntry(tab, n, v)]
  /\ name' = [name EXCEPT ![v] = n]
  /\ UNCHANGED lastUnique

(* reinsertValue on the table tab of f, for a value named n.                *)
ReinsertValue(f, tab, n, v) ==
  \/ /\ n \notin DOMAIN tab
     /\ table' = [table EXCEPT ![f] = WithEntry(tab, n, v)]
     /\ name' = [name EXCEPT ![v] = n]
     /\ UNCHANGED lastUnique
  \/ n \in DOMAIN tab /\ MakeUniqueName(f, tab, n, v)

(* addNodeToList after setParent: v enters the table of f under its name.   *)
EnterTable(f, v) ==
  IF f # NoParent /\ name[v] # <<>>
  THEN ReinsertValue(f, table[f], name[v], v)
  ELSE UNCHANGED <<table, name, lastUnique>>

Exit ==
  /\ exited' = TRUE
  /\ UNCHANGED <<blockList, instList, blockParent, instParent, name, table,
                 lastUnique, namings, renamed, unlisted>>

-----------------------------------------------------------------------------
(* Value::setName.  The entry removed is the one under the NEW name, and it *)
(* is removed after the value took the name.                                *)
SetName(v, n) ==
  LET f == FuncOf(v) IN
  /\ ~exited
  /\ name[v] # n
  /\ v \notin VoidInst
  /\ namings < MaxNamings
  /\ namings' = namings + 1
  /\ IF f # NoParent /\ n # <<>>
     THEN /\ ReinsertValue(f, WithoutEntry(table[f], n), n, v)
          /\ unlisted' = (unlisted \ {v}) \cup
               {w \in Named \ {v} : n \in DOMAIN table[f] /\ table[f][n] = w /\ name[w] = n}
     ELSE /\ name' = [name EXCEPT ![v] = n]
          /\ UNCHANGED <<table, lastUnique, unlisted>>
  /\ renamed' = IF f # NoParent THEN renamed \cup {v} ELSE renamed
  /\ UNCHANGED <<blockList, instList, blockParent, instParent, exited>>

(* Naming a value of void type fails an assertion.                          *)
SetNameOfVoid(v, n) ==
  /\ ~exited
  /\ v \in VoidInst
  /\ name[v] # n
  /\ Exit

(* dlist::insert exits on a linked node, addNodeToList on one with a parent.*)
InsertableInst(i) ==
  /\ instParent[i] = NoParent
  /\ \A b \in Block : i \notin ToSet(instList[b])
InsertableBlock(b) ==
  /\ blockParent[b] = NoParent
  /\ \A f \in Func : b \notin ToSet(blockList[f])

(* Slip: the parent is set only while the block is in a function.           *)
InsertInstUnowned(b, p, i) ==
  /\ ~exited
  /\ InsertableInst(i)
  /\ instList' = [instList EXCEPT ![b] = InsertAt(@, p, i)]
  /\ instParent' = [instParent EXCEPT ![i] =
                      IF blockParent[b] = NoParent THEN NoParent ELSE b]
  /\ EnterTable(blockParent[b], i)
  /\ UNCHANGED <<blockList, blockParent, exited, namings, renamed, unlisted>>

(* InstList.insert(pos, i): link the node, then addNodeToList: the parent,  *)
(* then the entry in the table of the block's function, if it has one.      *)
InsertInst(b, p, i) ==
  /\ ~exited
  /\ InsertableInst(i)
  /\ instList' = [instList EXCEPT ![b] = InsertAt(@, p, i)]
  /\ instParent' = [instParent EXCEPT ![i] = b]
  /\ EnterTable(blockParent[b], i)
  /\ UNCHANGED <<blockList, blockParent, exited, namings, renamed, unlisted>>

(* basic_blocks.insert(pos, b).  BasicBlock::setParent assigns the parent   *)
(* before setSymTabObject reads the old table through it: old and new table *)
(* are the same and the instructions of b are not entered.                  *)
InsertBlock(f, p, b) ==
  /\ ~exited
  /\ InsertableBlock(b)
  /\ blockList' = [blockList EXCEPT ![f] = InsertAt(@, p, b)]
  /\ blockParent' = [blockParent EXCEPT ![b] = f]
  /\ EnterTable(f, b)
  /\ unlisted' = unlisted \cup {i \in Inst : instParent[i] = b}
  /\ UNCHANGED <<instList, instParent, exited, namings, renamed>>

(* The exit of either insertion.                                            *)
InsertFails(v) ==
  /\ ~exited
  /\ IF v \in Inst THEN ~InsertableInst(v) ELSE ~InsertableBlock(v)
  /\ Exit

(* dlist::remove; a node that is on no list stays so.                       *)
Unlink(list, v) ==
  IF Contains(list, v) THEN RemoveAt(list, CHOOSE p \in DOMAIN list : list[p] = v)
                       ELSE list

(* Slip: the parent is reset and the entry is left in the table.            *)
RemoveInstOrphaned(i) ==
  /\ ~exited
  /\ instParent[i] # NoParent
  /\ instList' = [instList EXCEPT ![instParent[i]] = Unlink(@, i)]
  /\ instParent' = [instParent EXCEPT ![i] = NoParent]
  /\ UNCHANGED <<blockList, blockParent, name, table, lastUnique,
                 exited, namings, renamed, unlisted>>

(* Instruction::removeFromParent: the node is unlinked; removeNodeFromList  *)
(* changes neither the parent nor the table.  Unlinking an unlinked node    *)
(* does nothing; without a parent the call dereferences null.               *)
RemoveInst(i) ==
  /\ ~exited
  /\ instParent[i] # NoParent
  /\ instList' = [instList EXCEPT ![instParent[i]] = Unlink(@, i)]
  /\ UNCHANGED <<blockList, blockParent, instParent, name, table, lastUnique,
                 exited, namings, renamed, unlisted>>

(* BasicBlock::removeFromParent, which tests for a parent.                  *)
RemoveBlock(b) ==
  /\ ~exited
  /\ blockParent[b] # NoParent
  /\ blockList' = [blockList EXCEPT ![blockParent[b]] = Unlink(@, b)]
  /\ UNCHANGED <<instList, blockParent, instParent, name, table, lastUnique,
                 exited, namings, renamed, unlisted>>

SLInit ==
  /\ blockList = [f \in Func |-> <<>>]
  /\ instList = [b \in Block |-> <<>>]
  /\ blockParent = [b \in Block |-> NoParent]
  /\ instParent = [i \in Inst |-> NoParent]
  /\ name = [v \in Named |-> <<>>]
  /\ table = [f \in Func |-> [n \in {} |-> NoParent]]
  /\ lastUnique = [f \in Func |-> 0]
  /\ exited = FALSE
  /\ namings = 0
  /\ renamed = {}
  /\ unlisted = {}

SLNext ==
  \/ \E v \in Named, n \in Given : SetName(v, n) \/ SetNameOfVoid(v, n)
  \/ \E i \in Inst, b \in Block : \E p \in 1 .. Len(instList[b]) + 1 : InsertInst(b, p, i)
  \/ \E b \in Block, f \in Func : \E p \in 1 .. Len(blockList[f]) + 1 : InsertBlock(f, p, b)
  \/ \E v \in Named : InsertFails(v)
  \/ \E i \in Inst : RemoveInst(i)
  \/ \E b \in Block : RemoveBlock(b)

SLSpec == SLInit /\ [][SLNext]_slvars

-----------------------------------------------------------------------------
(* Types of the state; LastUnique is within the bound.                      *)
SLTypeOK ==
  /\ blockList \in [Func -> Seq(Block)]
  /\ instList \in [Block -> Seq(Inst)]
  /\ blockParent \in [Block -> Func \cup {NoParent}]
  /\ instParent \in [Inst -> Block \cup {NoParent}]
  /\ \A v \in Named : name[v] # <<>> => v \notin VoidInst
  /\ \A f \in Func : \A n \in DOMAIN table[f] : table[f][n] \in Named \ VoidInst
  /\ lastUnique \in [Func -> 0 .. MaxUnique]
  /\ exited \in BOOLEAN
  /\ namings \in 0 .. MaxNamings
  /\ renamed \cup unlisted \subseteq Named

(* The parent pointer of a linked node is the owner of the list it is on,   *)
(* so a node is never on two lists, nor twice on one: iterating a block or  *)
(* a function meets each node once, and getParent() of it leads back.       *)
LinkedNodesKnowTheirOwner ==
  /\ \A f \in Func : /\ \A b \in ToSet(blockList[f]) : blockParent[b] = f
                     /\ IsInjective(blockList[f])
  /\ \A b \in Block : /\ \A i \in ToSet(instList[b]) : instParent[i] = b
                      /\ IsInjective(instList[b])

(* Looking up a name in a function finds the value that bears it, of that   *)
(* function, unless setName renamed that value after it had a table.        *)
EntriesAreTrue ==
  \A f \in Func : \A n \in DOMAIN table[f] :
    /\ FuncOf(table[f][n]) = f
    /\ table[f][n] \notin renamed => name[table[f][n]] = n

(* A named value of a function is found under its name, unless it was in a  *)
(* block inserted after it (BasicBlock::setParent) or setName of another    *)
(* value took its entry; in particular two values share a name only then.   *)
NamedValuesHaveEntries ==
  \A v \in Named \ unlisted :
    LET f == FuncOf(v) IN
    f # NoParent /\ name[v] # <<>> =>
      name[v] \in DOMAIN table[f] /\ table[f][name[v]] = v

(* Inserting nodes never takes an entry from another value, whatever names  *)
(* are taken and whatever numbers makeUniqueName already gave out.          *)
InsertionKeepsEntries ==
  [][(blockList # blockList' \/ instList # instList') =>
       \A f \in Func : \A n \in DOMAIN table[f] :
         n \in DOMAIN table'[f] /\ table'[f][n] = table[f][n]]_slvars

(* Value.hpp on setName: "Choose a new unique name if the provided name is  *)
(* taken": after setName no other value of the function bears the name.     *)
SetNameIsUnique ==
  [][\A v \in Named, n \in Given :
       SetName(v, n) /\ n # <<>> /\ FuncOf(v) # NoParent =>
         \A w \in Named \ {v} : FuncOf(w) = FuncOf(v) => name'[w] # name'[v]]_slvars
=============================================================================

# A verification project for the HDU compiler

The repository holds a compiler for SysY (a small C) in two halves that `src/main.cpp`
does not join at this commit:

* a **front end**: lexer, LR(1) parser generator and parser, AST, type checker with
  scopes, and a code generator that emits LLVM IR through the LLVM library;
* a **middle end of its own**: an IR in the style of LLVM (values with use lists,
  intrusive lists of blocks and instructions, per-function symbol tables), an
  `IRBuilder`, a dominator tree and the pass Mem2Reg.

`main.cpp` has the front end commented out; it builds a function with `IRBuilder`,
prints it, runs Mem2Reg on it and prints it again. The program is sequential: there are
no threads, messages or restarts. What is hard here is **pointer structure kept
consistent by several methods** (two ends of a def-use relation, two ends of an
ownership relation, names and tables), **two walks over one tree that must agree** (the
type checker's and the generator's), **state that a visit saves, changes and must
restore** (scopes, loops, stacks of definitions), **fixed points** (first sets, item
sets, PHI placement) and **algorithms whose preconditions the code does not establish**
(the order of addresses in the dominator computation).

All source paths below are relative to `src/`.

## Inventory

| Component | State | Operations | Interacts with | Hard behaviour | Makes it correct |
|---|---|---|---|---|---|
| **Use-def chains** `IR/instruction.cpp`, `IR/Value.cpp` | `operandList` of each instruction, `useList` of each value, `Use::val` | constructors, `setOperand`, `replaceAllUsesWith`, `PHINode::addIncoming` | read by `CFG.hpp` (predecessors) and Mem2Reg (loads and stores of an alloca) | the two ends are kept by different methods, neither unlinks; replacement moves no Use | a Use is on one list; a value's list holds its readers |
| **Lists, ownership, names** `common/dlist.hpp`, `symbolTableListTraits.hpp`, `valueSymbolTable.cpp`, `Value.cpp` | `basic_blocks`, `InstList`, `parent`, `Value::name`, `vmap`, `LastUnique` | `insert`, `removeFromParent`, `setName` | callbacks: list → traits → parent → symbol table | `setParent` overwrites before comparing; removal leaves parent and entry; `setName` removes the wrong entry | linked nodes know their owner; a table maps a name to the value that bears it |
| **CFG and IRBuilder** `IRBuilder.hpp`, `CFG.hpp`, `basicblock.cpp` | insertion block and iterator | `Create...`, `setInsertPoint`, `successors`, `predecessors` | composes the two above | successors come from the last instruction, predecessors from a use list; iterators go stale | both directions agree on the edges |
| **Dominator tree** `Analysis/DominatorTree.cpp`, `common/Graph.hpp` | `nodeMap`, `dfnVector`, `idomMap`, `childrenMap`, `nodeDepthMap` | `runOnFunction`, `dominates`, `getChildren` | reads the CFG; used by Mem2Reg | addresses as order, a search that is not depth-first, unreached blocks, loops through the entry | immediate dominators; ancestry; termination |
| **Mem2Reg** `Transform/Mem2Reg.cpp` | promotable allocas, frontiers, PHI map, stacks of definitions | `runOnFunction`: frontiers, PHI insertion, renaming | asks for a dominator tree, rewrites the IR | a working list that grows while it is read; stacks popped by a second walk; `addIncoming` | each load is replaced by the definition that reaches it; it ends |
| **Pass manager** `Pass/` | list of passes | `run`, `getAnalysisResult` | allocates an analysis object per query | results computed while the IR changes | a pass sees an analysis of the current IR |
| **IR types, constants, functions, modules** `IR/` | type objects, constants, module lists | getters, `equals` | used by every instruction | types are not interned, some comparisons are by pointer | equal types compare equal |
| **IR printer, slot tracker** `IR/asmWriter.cpp` | numbers of unnamed values | lazy numbering, printing | reads the IR | numbering while printing | one number per value |
| **Lexer** `lexer/lexer.cpp` | index, row, column, token list, rows of text | scanning loop | tokens for the parser, rows for error messages | unterminated comments, last line, positions | tokens are the text; locations point into it |
| **LR(1) generator and parser** `parser/parser.cpp`, `table.csv` | rules, first sets, item sets, table; symbol, state and info stacks | table construction, export/import, `Parse` | tokens in, tree out | fixed points, conflict resolution, lists collected backwards | the table accepts the sentences of the rules, the tree keeps their words |
| **AST** `astnode/` | trees | construction, `finalizeType`, annotations | built by the parser, annotated by the checker | types completed after the fact | no hole is left |
| **Source types** `type/type.cpp` | type objects, some shared by several variables | `degrade`, `equals`, `toLLVMType` | checker, generator | mutation of shared objects | a type is not changed by using a value of it |
| **Type checker** `type/Typechecker.cpp` | scopes, `loopDepth`, current function and class, classes, annotations | a visit method per node | scope table; promises the generator a checked tree | early returns that leave state behind | accepted programs can be generated |
| **Scope table** `symbolTable/` | stack of maps, depth | `beginScope`, `endScope`, `insert`, lookups | type checker | the global scope | the innermost declaration wins and stays |
| **LLVM code generator** `codeGen/codeGen.cpp` | insertion point, environments, loop targets | a visit method per node | LLVM (external) | code after `break` or `return`, targets of nested loops | a module that LLVM's verifier accepts |
| **Instruction selection** `include/codeGen/InstSel` | – | data types nobody builds yet | – | – | – |
| **Driver** `main.cpp` | – | lex, parse, check, generate, verify | all of the front end | each phase relies on the one before | it goes on only after success |
| **Scripts, tests** `ir.py`, `tests/` | – | – | – | – | – |

`PROJECT.json` repeats the list with a status each, and the hazards each at its line.

## Modules

```
 middle end
   UseDef ───────────┐             DomTree ── Mem2Reg
                     ├── IRBuilder
   SymList ─INSTANCE─┘
   proofs: UseDef, IRBuilder ── IRBuilderProofs
           SymList ──────────────────── SymListProofs
           DomTree ── DomTreeProofs ──┐
           Mem2Reg ───────────────────┴── Mem2RegProofs
           BasicLemmas, used by all of these, LexerProofs and ParserProofs

 front end
   Lexer ─────────INSTANCE────────┐
     └ LexerProofs                │
   Grammar ─┬─ LRTable ───────────┼── Reader     text or words  →  tree
            └─ TreeBuilder ── Parser ─┘
   Derivation ─INSTANCE in Parser (abstract specification)
         └ ParserProofs (Parser implements it, for every table)
   ScopeTable ─INSTANCE─┐
   SourceTypes ── TypeChecker ── CodeGen ── Frontend      tree  →  module
   ScopeDiscipline ─INSTANCE (abstract specification)─┘
         └ ScopeProofs ─INSTANCE─ ScopeTable (the methods implement the discipline)
```

The middle end, `Lexer`, `Parser`, `Reader` and `Frontend` are state machines; the other modules of
the front end are operators (a method as a function from its object's members to their next
values) that those make steps of.

**UseDef** – the def-use relation. An instruction object is a member of `Inst` whose
`kind` is `"none"` until it is constructed; blocks and constants are values that never
use. A `Use` is `<<instruction, slot, generation>>`, so that the Use a slot holds now and
those it held before are told apart. `Construct`, `SetOperand`, `ReplaceAllUsesWith` and
`AddIncoming` are the methods of those names; the order in a use list is abstracted. A
failed `__assert__` sets `status` to `"aborted"`. `replaceAllUsesWith` puts any value in
place of an operand, and a block in place of a block: a value in the place of a branch
target would be an IR of the wrong types.

**SymList** – lists, parents and tables. The objects exist from the start, unlinked and
unnamed. `InsertInst` and `InsertBlock` are `dlist::insert` followed by the whole callback
`addNodeToList` (parent, then symbol table through `ReinsertValue` and
`MakeUniqueName`); `RemoveInst` and `RemoveBlock` are the two `removeFromParent`;
`SetName` is `Value::setName`. Exits and failed assertions end the run. A name is the
sequence of the given string and the numbers concatenated to it.

**IRBuilder** – extends UseDef, instantiates SymList (without functions and names), and
adds the builder's insertion point. `Create` is construction plus insertion.
`Successors` and `Predecessors` are the two iterators of `CFG.hpp`. Insertion before an
instruction that has since been unlinked is included: the new instruction gets the parent
and is on no list.

**DomTree** – `DominatorTreeWrapper::runOnFunction` on an arbitrary graph, one loop
iteration per step. A block *is* its address, `1 .. N`, because the code compares
`BasicBlock` pointers; all orders of allocation are covered since graph and entry are
arbitrary. `eval` on a cycle of ancestors is a step to `"diverged"`, where the real
program loops.

**Mem2Reg** – extends DomTree: the analysis steps come first (`getAnalysisResult`
constructs and runs a new analysis), then the pass: `computeDominanceFrontier`, the scan
of the entry block for allocas (`FindAllocas`), one turn of the working list of
`PromoteMemToReg` per step, and `rename` as a stack of calls (`path`), one call or return
per step. A block is the sequence of its instructions of interest: alloca, load, store
and *use*, an instruction that takes an alloca as an operand otherwise. Types are
compared by address in `isAllocaPromotable`, and every `get` makes a new object: a store
carries one bit, `same`, which says whether the type of its value is the object its
alloca was made with (`Store`) or an equal one made elsewhere (`StoreOfEqualType`). A definition is `<<block, index>>`, index 0
being the PHI node of the block. A failed assertion is an outcome of its own name
(`"undefined"`, `"incoming"`, `"pointer"`, `"underflow"`), `at()` on a missing key is
`"threw"`.

**Lexer** – `tokenize` over a sequence of characters: `i`, `row`, `col` and `row_begin`
are its local variables, and an action is a turn of its loop, one for each branch. The
loops of `read_id_keyword`, `read_num` and of the two comments are the position where they
stop. A character behind the end of the text is the terminating zero of the string;
`substr` behind the end throws, so that the loop ends in `Done` or in `Thrown`. Two things
are recorded for the properties only: where in the text a token begins (`at`) and the
stretches that were taken for comments (`comments`).

**Grammar** – the 111 rules of `parser.cpp`, each with its left side, right side and
the semantic action it names, and what the other modules say about rules, for any list of
them (`Rules`). **TreeBuilder** – the actions: what each of them makes
of the infos on the stack (identifiers, numbers, declarators, lists collected backwards,
types with a hole for the base type), as trees of records. **LRTable** – first sets,
closure, transitions, the numbering of item sets, the table with its resolution of
conflicts, and the way of the table through `table.csv` (`importedTable`).

**Parser** – the loop of `Parse`, one turn per step: shift, reduce with the action of the
rule and the GOTO behind it, accept, reject. Its table is a constant. A state is the set
of its core items, as in LRTable, and the assumption `TableFollowsItems` says what the
generator sees to: a transition moves the dot of items that are in the core or begin a
rule that is called for, a rule is reduced where an item of it is complete. The input is
known from the start or comes token by token when `Parse` first looks at it, which is the
same, since `Parse` reads in order and never looks back.

**Derivation** – the abstract specification of a bottom-up parser, which has no states
and no tables: it writes down the words it is given, undoes rules in what it has written,
and accepts when the right side of the start rule is left. Parser instantiates it with
the symbols of its stack and the input behind them as what is written.

**Reader** – composes these: the table is generated from the grammar in the first
step, then a text is tokenized, each turn of `Lexer` a step, and `Parse` runs on the
tokens of a text, or on an input drawn token by token. `Table` is given the value
`importedTable`, so that TLC evaluates `TableFollowsItems` on every entry of the real
table; from the moment tokens are parsed, a behaviour of Reader is one of Parser.

**SourceTypes** – type objects. Types are values, except pointers made by one
declaration of several variables: these are shared, and their depth is in a *heap* of the
checker. `degrade` writes it. **ScopeTable** – `SymbolTable`'s methods.

**TypeChecker** – the visitor that annotates expressions with types and records errors,
as operators from the checker object `tc` (scopes, `loopDepth`, errors, current class
and function, classes, signatures, annotations, the heap) to its next value.
**CodeGen** – the visitor that emits LLVM IR, likewise over `cg` (blocks with their
terminators, insertion point, environments, current function, loop targets). LLVM is
external: its types, its blocks, and the rules its verifier checks (one terminator per
block, at its end; operand types; values of the function they are used in).

**Frontend** – composes them as `main.cpp` does: the checker visits the tree, then,
unless it recorded an error, the generator, then the module is verified. A program is its
tree in the order of the visit, a construct with statements inside being a pair of
records that enclose them. One action is a visit method, or its part before, between or
after the nested statements, because what the method does to shared members is
interleaved with what the nested visits do to them. The two visitors are different
actions on the same record.

**ScopeDiscipline** – the abstract specification of a table of nested scopes: names are
declared in the innermost scope and never rebound, scopes are entered and left, the
global one never. It knows nothing of programs or lookups. `Frontend` instantiates it
with `table <- tc.table`.

**BasicLemmas** – what the operators of the standard and community modules return, for
the proofs: where `InsertAt` and `RemoveAt` put the elements of a list and what they
leave of it, the recursion of `FoldFunction` and `FoldLeft`, the fixed point of a growing
sequence of sets. **MC...** – instances.

Each module has a few operators marked *Slip*: a definition with a plausible mistake in
it, next to the one it imitates. They are no part of any specification. Putting one in
the place of its neighbour makes a property fail, which shows that the property depends
on that piece of code; `PROJECT.json` pairs them under `mutants`.

## Runs

| Run | Bounds | States | Shows |
|---|---|---|---|
| `usedef` | 3 instructions, 2 blocks, 1 constant; alloca, load, store, phi, condbr; PHI with ≤ 1 reserved; 3 edits | 667 490 | `OneListPerUse`, `DefSeesItsUses`, `ReplacementIsTotal` |
| `usedef_raw_list` | same | – | *violation* of `ReplacedListIsEmpty` |
| `symlist` | 1 function, 2 blocks, 2 instructions (1 void), names `a`, `a1`, empty; 4 namings | 649 270 | `LinkedNodesKnowTheirOwner`, `EntriesAreTrue`, `NamedValuesHaveEntries`, `InsertionKeepsEntries` |
| `symlist_setname` | same | – | *violation* of `SetNameIsUnique` |
| `irbuilder` | 3 instructions, 2 blocks, 1 constant; br, condbr, ret void; 1 edit | 525 863 | `PredecessorsComplete`, `StalePredecessorsHaveACause` |
| `domtree` | all 4 913 graphs of 4 blocks with ≤ 2 successors whose block 4 returns, and 3 840 of 6 blocks with joins and loops; entry any of 3 | 340 638 | `DominatesIsAncestry`, `DivergesOnlyThroughTheEntry`, `ImmediateDominatorsDownwards`, `Terminates` |
| `mem2reg` | 144 functions' graphs of 5 blocks with joins and loops, 2 more allocated upwards; 132 contents with 2 allocas | 205 771 | `FrontiersAreFrontiers`, `PhisWhereDefinitionsMeet`, `LoadsSeeTheirDefinition`, `StacksFollowThePath`, `AbortsHaveACause`, `PassEnds` |
| `lexer` | texts of ≤ 4 of 14 pieces, of ≤ 5 of 6 characters, and two longer ones | 208 258 | `TokensAreTheText`, `CommentsAreComments`, `TokensAreWhole`, `ThrowsAtOpenEnds`, `PositionsAreTrue`, `TurnsAdvance` |
| `reader` | 8 texts; 18 drafts, a prefix and ≤ 4 to 7 symbols | 132 744 | `OnlyWrongSymbolsAreRejected`, `AnswersFollowTheRules`, `ElseBelongsToTheNearestIf`, `TreesHaveNoHoles`, `TreesKeepEveryWord`, `TurnsUndoRules` |
| `frontend` | 6 961 programs | 92 297 | `VisitsAreBalanced`, `VisitorsResolveAlike`, `JumpsBelongToTheInnermostLoop`, `ValuesHaveTheirTypes`, `CoveredProgramsAreSaved`, `MethodCallsPassThis`, `ScopesAreDisciplined` |
| `domtree_idom` | 3 blocks | – | *violation* of `ImmediateDominators` |
| `domtree_dfs` | 3 blocks | – | *violation* of `SearchIsDepthFirst` |

*Why the bounds are enough.* A Use has two ends and the properties of UseDef relate one
Use to two values: three instructions give an alloca, a reader and a second value to
replace it by, and three edits give an overwrite followed by a replacement of the
replacement. The safety properties of UseDef and of the whole middle end are moreover
proved for every bound (see Proofs). In SymList one
name and its first unique variant (`a`, `a1`) collide with each other, so a generated
name meets a given one; two blocks and two instructions allow a node to be inserted in a
second list. In IRBuilder two blocks with three instructions allow a branch followed by
another instruction, a branch moved to the other block and an edge between the blocks in
both directions. Four blocks in DomTree hold every shape of diamond and loop, but
semidominator and immediate dominator differ only from five or six blocks on, with a
chain of the search and a late jump into its middle: the graphs of six blocks are made
like this, which is what makes `eval` climb (a mutant shows that the climb matters).

In Mem2Reg five blocks give diamonds, one-sided branches, a loop inside a branch, loops
with one and with two entries and a block that jumps to itself. A PHI node that is itself
a definition needs a join below a join, or a loop: both are there. One alloca is stored
to and read in every combination of four blocks; with two allocas come those that are not
in the entry block, whose address is stored or used otherwise, and accesses through a
pointer that is no alloca. In both families an alloca may be stored a value of an equal
type, so that it is not promoted: it is then stored to and read everywhere as well, with
and without a store that dominates the load. Where the tree DomTree builds is not the dominator tree,
properties say nothing of the result, but the pass must still end and keep its stacks.

The lexer looks at two characters at a time. Four pieces, among them a name, a number, the
two characters of a comment's opening and closing and those of an operator, put every
pair in front of, inside and behind a token, at the end of the text and behind a line
break. Five characters are what it takes to open a block comment, to close it with a star
of its own, and to go on behind it. All of its properties are moreover proved for every
set of texts. The texts of `reader` are there for the way from one phase to the next:
accepted and rejected ones, no token at all, and the two that throw.

The reader's drafts are inputs that begin with some symbols and go on with any symbols
of a set: all ways to continue are tried. The prefix brings the parser into a part of the
grammar (a class body, a parameter list, a condition inside an `if`), the set is what
that part is about. Together they reduce every rule that can be reduced; left over are the
start rule (accepting is another action), 18 (`ConstDecl` has no rules), 69 (`Number` is
used by no rule) and 104, which repeats an earlier rule and is never
chosen. `AnswersFollowTheRules` compares each answer with a chart of the rules, built by
another algorithm and without first sets, so a lookahead that is missing or too much
shows.

The programs of `frontend` are: every list of up to two simple statements inside every
kind of block, branch and loop, two levels deep, in functions of type int and void;
expressions of depth two over an int, a pointer, an array, an array of pointers and an
array of arrays, wherever an expression may stand; declarations of every type with and
without initialisers, shadowing in blocks, parameters and functions, global variables,
two functions that call each other; classes with a field, a constructor and two methods,
their objects and pointers to them. An error of either visitor concerns one statement
and what encloses it, and the state a visit leaves behind shows in the next statement.

*Type invariants.* Those of UseDef and Frontend are checked with the properties of their
runs. Those of SymList, IRBuilder, DomTree, Mem2Reg, Lexer and Parser are theorems, and
no run repeats them.

*Deadlock.* `CHECK_DEADLOCK FALSE` everywhere: the API is used up when all objects are
constructed and the edits are spent, the program exits on a failed assertion or an error,
and the analysis, the pass, the parser and the driver stop when they are done.

*Fairness.* `domtree` and `mem2reg` check liveness, under `WF(DTNext)` and `WF(M2Next)`:
the program is sequential and nothing else has to happen for it to take its next step, so
it keeps taking steps as long as one is left.

*Refinement.* `ScopesAreDisciplined` is `ScopeDiscipline!Spec` with the checker's scope
table for `table`: every step of `Frontend` is a step of the abstract specification or
leaves the table alone. `TurnsUndoRules` is `Derivation!Spec`: every turn of `Parse`
undoes a rule in stack and input, adds a token that was not looked at before, accepts, or
leaves all of that alone. Both refinements are also proved: the first for the methods of
the table under a disciplined caller, the second for every grammar and table.

*Symmetry.* Instructions, and blocks, are interchangeable in UseDef, SymList and
IRBuilder (void instructions apart in SymList), where only safety is checked. DomTree
and Mem2Reg use numbers, the front end is given whole programs: no symmetry.

## What the checks found

* **`replaceAllUsesWith` does not empty the list** (`Value.hpp:283` says it is guaranteed
  to). The Uses stay on the old value's list, reading the new one. Consequences the
  properties carry in their guard: a value that *replaced* another one does not see those
  users (`DefSeesItsUses`, `PredecessorsComplete`), and replacing the replacement misses
  them (`ReplacementIsTotal`).
* **`setName` may give a name twice** (`Value.hpp:59` says a unique one is chosen): it
  removes the entry of the *new* name, which is another value's, and then enters the
  value under it. In the run a block and an instruction inside it end up with one name.
* **Dominators depend on addresses.** Semidominators are compared as pointers, where
  Lengauer-Tarjan compares search numbers; `dfn` is assigned and never read. When a block
  lies below its parent in memory, reached blocks are left without an immediate
  dominator. When each block lies above its parent, the search happened to be
  depth-first and no unreached block jumps to a reached one, the result is right:
  `ImmediateDominatorsDownwards`, proved for every graph.
* **The search is not depth-first** although `Graph.hpp:17` says so: blocks are marked
  when they are pushed.
* Seen in the models, with no text of the repository to set against them: the analysis
  never ends on a function whose entry block has a reached predecessor (the exception in
  `Terminates`); `addIncoming` always aborts when it sets the block, since
  `setIncomingBlock` asserts the opposite of what `setIncomingValue` asserts on the same
  index; instructions of a block that is inserted when full never enter the function's
  table (`unlisted` in SymList).

In Mem2Reg:

* `addIncoming` makes the pass abort on **every function that needs a PHI node** filled
  (`"incoming"`); it ends well only where one definition reaches each load. It aborts on
  a load that no path reaches with a definition (`"undefined"`), promoted or not: loads
  and stores of allocas that were not promoted are renamed as well, and since these have
  no PHI nodes, a load behind stores in both arms of a branch finds nothing. An access
  through any other pointer aborts (`"pointer"`). `AbortsHaveACause` says of each abort
  that its cause is at the very load, PHI node or access the pass failed at, and that
  nothing else makes it abort.
* Types are not interned (`Type.hpp:104`) but compared by address (`Mem2Reg.cpp:30`): an
  alloca that is stored a value whose type was made elsewhere is not promoted, although
  the constructor of the store accepted the types as equal, and the item above applies.
* A load is replaced by the *store instruction* (`Mem2Reg.cpp:54`), where the header
  (`Mem2Reg.hpp:47`) speaks of the stored value. `LoadsSeeTheirDefinition` is about
  which definition it is.
* Where the dominator tree is wrong, `at()` may throw in the middle of the pass.

In the reader:

* A text whose last character is an operator of one character, and a block comment that
  is not closed, make the lexer run past the end and throw; nothing else does
  (`ThrowsAtOpenEnds`). Block comments advance neither column nor row, a character the
  lexer does not know leaves the column, and the last row is recorded only if it ends
  in a newline: the exceptions in `PositionsAreTrue`.
* **Lists are collected backwards** and turned round, except for the arguments of a
  plain call (`parser.cpp:1004`), the parameters of a constructor, of a function without
  a body and of a parameter that is a function. The type checker compares a call's
  arguments with the parameters position by position.
* `a + b.x` is parsed as `(a + b).x`, `a.x + 1` is a syntax error, there are no
  assignments and no method calls without arguments: this is what the rules say, and the
  table follows the rules.
* A hexadecimal literal has the value 0 (`stoul` reads decimal digits only), although
  the programs under `tests/` use them. The return type of a function that is only
  declared is never completed (`node.cpp:613` asks the node's kind, not its type's), the
  exceptions in `TreesHaveNoHoles`. Parsing no tokens at all reads the last one of them.
* The first sets lack a terminal that stands behind nullable nonterminals. No rule of
  this grammar needs it: `AnswersFollowTheRules` holds. The closure reads behind the end
  of a right side for an item at its end, where what it reads is not used.

In the front end behind the parser:

* A **break inside an `if` outside any loop** is accepted (`Typechecker.cpp:579`
  increments `loopDepth`), and the generator exits on it. Statements **behind a jump**
  are emitted after their block's terminator.
* A **comparison** is one bit to LLVM and an `Int` to the checker: stored in a variable,
  added or used as a condition it gives an invalid module. An `if` compares its
  condition with a 32-bit zero.
* Using a one-dimensional **array of pointers** as an operand changes the depth of the
  pointer type it shares with other variables of its declaration (`type.cpp:93`).
* A name in **its own initialiser** is the new variable to the checker and the outer one,
  or none, to the generator.
* A method's type gets **`this`** when its body is visited, so that a call inside the
  class that comes before it passes one argument less.

`CoveredProgramsAreSaved` says that these, and the constructs the generator has no code
for (its definition `Covered` and the ones below it list them), are *all* the reasons
why an accepted program, of the family that is checked, is not compiled.

## Proofs

All proofs are checked by TLAPS, for all sets of blocks, instructions, constants and
kinds and all bounds. The assumptions are named in the modules that declare the
constants: in UseDef, SymList and IRBuilder that the sets of objects are disjoint, the
bounds natural numbers, the null Use no Use, `NoParent` no block and `End` no instruction;
`TextsAreSequences` in Lexer; `BlocksAssumption` and `ShapesAssumption` (there is a block,
entries are blocks, a graph gives each block the sequence of its successors); `AllocasAssumption` and
`CodesAssumption` (an alloca is allocated by one instruction at most, and not by the
pointer that stands for "something else"); `RulesAssumption` and `TableFollowsItems` in
Parser, which TLC evaluates on the rules of the compiler and on the table generated from
them. Nothing is assumed of the graphs or of the
codes otherwise: where a property speaks of graphs whose tree is right (`TreeIsRight`),
so does its theorem.

**IRBuilderProofs.** For UseDef: `UDInv` = `UDTypeOK ∧ OneListPerUse ∧ DefSeesItsUses ∧ UsersExist`.
`UsersExist` says that every allocated Use belongs to an instruction that was
constructed; without it the invariant is not inductive, because a constructor names
its Uses of generation 1 and must know them to be new. `setOperand` adds a new Use to one
list and to no other. `replaceAllUsesWith` changes no list, and its new value enters
`target`, which is what keeps `DefSeesItsUses`. From it:
`TypeCorrect`, `UsesOnOneList`, `DefsSeeTheirUses`, and the action property
`ReplacementsAreTotal`, which follows from `DefSeesItsUses` before the step: all readers
are on the list that is walked.

For IRBuilder, whose steps are steps of UseDef and more: `IBInv` = `UDInv ∧ IBTypeOK ∧ NodesOwned ∧ TargetsFilled`.
`NodesOwned`: the instructions on a block's list are constructed ones whose parent is
the block. `TargetsFilled`: the target slots of a branch are filled, with Uses that read
blocks *and are on lists of blocks*. The second half is what a replacement needs: it
walks a list, and only if a target's Use is on a block's list does it get a block. An
edge `b → s` is then followed from the last instruction of `b` (on the list, so parent
`b`) through its target slot to a Use that reads `s` and hence is on the list of `s`:
`EdgesSeenFromBothEnds`. Also `IBTypeCorrect`. In the other direction
`StaleForAReason` needs one more conjunct, `BlockUsesAreTargets`: only the target slots
of branches have their Uses on lists of blocks, and a branch that was never retargeted
still holds the Uses it was constructed with, so that such a Use is an edge as long as
the branch ends its block.

**SymListProofs.** `SLInv` is the conjunction of the four invariants of the run, with the
domains of names and tables, and is inductive as it stands. A node with a parent is not
inserted again, so the function of a value never changes once it has one, which is what
keeps an entry true; an entry is only ever made under a name the table does not have,
after `setName` removed the one in its way, and `unlisted` records whose that was. An insertion adds to one list a node that was on none (`OwnersKnown`;
the facts about the positions after an insertion and a removal are in `BasicLemmas`).
Also `SymListTypes`, `EntriesTrue`, `NamedValuesFound` and the action property
`EntriesSurviveInsertion`. Nothing is assumed about the names.

**DomTreeProofs.** `DTInv` is `DTTypeOK` with five conjuncts. `SearchOnce` counts: the
entry is pushed once more than it is marked and every other block as often, which bounds
`dfnVector` by `N + 1` (the entry may be numbered twice). `SearchTree`: the parent of a
numbered block is numbered before it. `LinksFollowTheSearch`: `ancestor` is null or the
parent. Hence a chain of ancestors goes down in `dfnVector` and ends, unless the
entry has got a parent: `EvalReturns`. `DepthsFollowTheTree` and `QueueIsTheFringe` say
that the depth pass meets a block once and after its immediate dominator; the blocks with a depth form a chain
under `idomMap`, so no depth exceeds `N` (`DomTreeTypes`), and depths decrease along
climbs, so that stopping at the first smaller depth misses nothing
(`DominatesClimbsTheTree`). The module then has the theory of dominance that the pass
needs: `ReachedWithout(a)` is closed under edges that avoid `a` and is the least such set
(`ReachClosed`, `ReachLeast`), and strict dominance is an order in which the dominators of
a block are a chain (`DominanceOrder`).

The second half of the module proves `DominatorsAreImmediate`, that the algorithm is
right where its hypotheses hold (`Favourable`): blocks allocated after their parents, a
depth-first search, no dead block that jumps to a live one. It follows Lengauer and
Tarjan, with addresses in the place of numbers.

- *The search.* `SearchOrder` is invariant: the parent of the block popped next is
  above the block numbered last (`Preorder`), and the rest of a node is as it was. So
  the numbers are a preorder: what is numbered between a block and one below it is
  below it too, and on a chain of parents addresses and numbers agree (`Numbered`,
  `Chains`). This is what lets the code compare addresses.
- *Dominance.* `IsSemi(b)` says what a semidominator is in terms of the predecessors of
  `b` and of the semidominators of later blocks. If every block has one, `x` strictly
  dominates `w` exactly if `x` is above `w` and no block between them, `w` included, has
  its semidominator above `x` (`Bounds`, `SemiDominance`). Hence the immediate dominator
  of `v` is its semidominator, if no block between them has one further up; otherwise it
  is that of the block between them whose semidominator is furthest up
  (`RelativeIsImmediate`).
- *The loops.* `SemiInv`: a block that is linked has its semidominator, the others
  have no ancestor and themselves. `BucketInv`: a linked block waits in the bucket of
  its semidominator, and then no child of that block above it is linked, or its
  `idomMap` is its semidominator or its relative (`IsRelative`) and all blocks between
  are linked. What makes an iteration preserve this is `EvalOnTheChain`: `eval` finds
  the least semidominator on the linked part of the chain. `IdomInv`: the second pass
  meets a block after its relative.
- *The end.* `LoopEnds`: if the search met the entry again, every chain ends in a cycle
  and `eval` of a predecessor of the entry is lost, so that an analysis that ends has
  not numbered the entry twice.

**Mem2RegProofs.** `AnalysisIsDomTree` shows that every step of the pass is a step of
DomTree or leaves its variables alone, so that `DTInv` holds in the pass.
`M2Inv` = `M2Types ∧ OnePhiEach ∧ NothingRenamed ∧ Stacked`. `Stacked` says that the stack
of an alloca is the definitions in the blocks of the calls that have not returned, in
order. It needs that the third loop of `rename` pops as many as the first pushed: the
fold of `Rename` pushes exactly the definitions of the block, and the block has one PHI
node of an alloca at most (`OnePhiEach`), since `inserted` remembers the blocks of the
alloca in hand. From it `StacksAreThePath`, `Mem2RegTypes` and `NoUnderflow`. The second
part proves `FrontiersAreRight`: if the idoms are the immediate dominators, then the depths
order the dominators of a block, `Dominates` is dominance, and the frontier of a block, from those
of its children and its successors, is right by induction on the height of the tree
(`FrontInv`). `FavourableTreesAreRight` carries `DominatorsAreImmediate` over to the pass:
under its hypotheses the tree is right, and the properties that suppose so apply.

Its third part is about promotion. `PassInv` adds four invariants. `PlaceInv`: the blocks that have
a PHI node of the alloca in hand are the iterated frontier of its stores as soon as the
working list is empty, since what is popped has its frontier inserted. The
definitions that arrive at a block (`Arriving`) are a least fixed point; with PHI nodes in a
set that is closed under frontiers, only the nearest definition above a block arrives
there (`NearestArrives`), and at each block of the iterated frontier two do (`TwoArrive`):
`PhisAreRight`. `PathInv`: the calls that have not returned are the dominators of the
block in hand. With `Stacked`, the top of a stack is therefore the nearest definition
above the block, or the newest in the block itself: `LoadInv`, that is `LoadsAreRight`.
`CauseInv` is about the assertion that failed. The loads of the block that are in
`replaced` tell where the first loop stopped: those before the failing instruction, and no
other, since `rename` had not been called for the block before (`StoppedBefore`, which
needs that loads are replaced in visited blocks only, a part of `LoadInv`). An empty stack
there means that no definition of that alloca arrives (`TopReaches`), or, for an alloca
that is not promoted, that no store dominates the place (`NothingDominates`, from
`Stacked` and `PathInv` alone); a stack that is not empty at the first PHI node of a
successor means that a definition is on every path: `AbortsAreJustified`.

**LexerProofs.** Every property of the run `lexer`, for every text. `LexInv` is the
properties `LexTypeOK`, `TokensAreTheText`, `CommentsAreComments`, `TokensAreWhole` and
`ThrowsAtOpenEnds` with three conjuncts that say what the loop has read:

- `Ahead`: tokens and comments end at `i` or before, and none overlaps another. Without it
  a new token could begin inside the last one, and what is known of a character behind
  `i` would have to be decided again.
- `Line`: `row_begin` is behind the last line break outside block comments, `row` counts
  the rows kept, and `col` is the distance from `row_begin` as long as nothing on the
  line upset it (`Even`).
- `Lines`: each token has a beginning of its line, which is `row_begin` until the line is
  ended by a break, and then that of the row kept for it. `PositionsAreTrue` is not
  inductive: of a token on an ended line it does not say where its row begins.

The branches are four kinds of step, each a lemma for any branch that has its shape:
`EmitStep` (a token between `i` and some `end` that is a `Lexeme`), `SkipStep` (a comment),
`PassStep` and `StayStep` (one character that is in no token, with and without the
column) and `NewLineStep`. `TurnStep` then shows what each branch emits or skips. The
theorems are `LexTypeInvariant`, `NothingIsLost`, `CommentsAreFound`, `LongestTokens`,
`ThrowsForOpenEnds`, `PositionsAreKept` and, for the loop, `TokenizeAdvances`: each turn goes
on, and never more than two characters behind the end.

The proof corrected the properties. They used to find the comments of a text by
looking for marks in it, and were true of every text of the earlier bounds. In the text
`/* /*/a` the second mark lies inside the comment the first one opens, and the name behind
it is a token; and a line break inside a later block comment does not end the row of a token
in front of it. Now the comments are those the loop took, and `CommentsAreComments` says
that it took the right ones.

**ParserProofs.** That an LR parser is sound, for every grammar and every table with
`TableFollowsItems`. `Parse` never compares what it pops with the rule it reduces, so
something must say what is on the stack. The inductive invariant `PInv` is `PTypeOK` with
`Matches`: each item of each state on the stack describes the symbols below that state.
Those its dot has passed are the last ones there, and the state under them has a GOTO
for the left side of its rule. `Matches` survives a push along any transition that moves
dots (`PushMatches`) and a pop (`PopMatches`), hence a shift, and a reduction with its
GOTO, which is a transition too (`ShiftKeeps`, `ReduceKeeps`). Results:

- `InternalTestsHold`: the tests `Parse` makes on its own stack (lines 1623, 1664, 1688
  and 1697 of `parser.cpp`) never fail. A reduction finds its right side on the stack, which
  is the item `<<rule, length, lookahead>>` of the top state read by `Matches`
  (`ReductionsFind`), and a GOTO below it; no token ever meets an entry GOTO or accepts
  before the end.
- `ParseDerives`, the refinement of Derivation, one step per action: a shift moves a
  symbol from the input to the stack and leaves stack and input together as they were; a
  reduction undoes its rule in them at the end of the stack. Accepting needs that the stack is
  *exactly* the right side of the start rule. In `Matches` an item
  of the start rule describes the whole stack, since no rule calls for that one.
- `DerivationIsSound` and with it `ParseIsSound`: the words that are accepted derive from
  the start rule. The invariant of Derivation says that the words so far derive from what
  is written; more words behind both leave a derivation a derivation (`UndoesInFront`).

What the generator makes has `TableFollowsItems`; this is not proved, since closures and
table are RECURSIVE operators, but evaluated by TLC on the whole generated table. That the
table has *every* entry it needs, so that no sentence is rejected, is the other half of
`AnswersFollowTheRules` and is checked, not proved.

**ScopeProofs.** Of the abstract scope table, for every sequence of its operations and
every set of names and symbols: `GlobalScope` (the depth counts the scopes above the
global one, which is never popped, so `endScope`, `insert` and the lookups always find a
scope) and the action property `SymbolsStayBound` (a name bound in a scope keeps its
symbol as long as the scope is open). The invariant adds that the scopes are a sequence,
which the operations need to speak of the innermost one. `TableFollowsDiscipline` is the
refinement: the methods of `ScopeTable`, called in any order by a caller that closes no
scope it did not open, implement `ScopeDiscipline`. That the type checker is such a
caller is `ScopesAreDisciplined`, which TLC checks.

**BasicLemmas.** Induction over data is done in first-order form. The library's
theorems about recursive functions take an operator as a parameter, which no installed
prover can instantiate; that `<` on the natural numbers is well-founded can be cited,
and from it follow induction for a *set* of numbers (`UpTo`), the existence of functions
defined by iteration (`IterationExists`) and of the function inside a fold of a sequence
(`FoldExists`). Each recursive definition of DomTree and Mem2Reg is unrolled with them
once (`ClimbSteps`, `ReachSteps`, `RunSteps`, `AlongSteps`, `FrontierSteps`, …).

**Only model-checked.** The liveness properties `Terminates` and `PassEnds`, since
fairness and ENABLED are out of the prover's reach. Of the parser: that it rejects no
sentence (`AnswersFollowTheRules`), the choice at `else` (`ElseBelongsToTheNearestIf`)
and what the trees hold (`TreesHaveNoHoles`, `TreesKeepEveryWord`). Of the two visitors:
all of Frontend, and that its steps are those of ScopeDiscipline. They are built on
RECURSIVE operators (item sets, trees, expressions), which the provers cannot use, and
what they say of a tree is an induction over it. `SelectSeq`, `@@` and `:>` are opaque to the
provers as well; in Lexer only the keywords are written with them, and no proof has to
look a keyword up.

## Not modelled, and why

* *IR types, constants, functions and modules*: structural equality and containers;
  functions and globals in modules use the list template that SymList models.
* *IR printer and slot tracker*: formatting, which changes nothing but the tracker's own
  map of numbers.
* *Use-def chains*: `getelementptr`, calls and casts (the builder creates none), the
  order of a use list, and how many slots a PHI node reserves.
* *Pass manager*: the loop over a list of passes; `main.cpp` runs one pass.
* *Front end*: the evaluation of constant dimensions (`const_eval`), wording and
  location of error messages, printing of trees, tables and types; `const`, which no
  program can use; `computeFollowSet`, which nothing calls. Two loops of the generator
  marked "Pointer Fault" cannot be reached and are left out.
* *Instruction selection*, *scripts*, *tests*: data types that no code uses, a test
  runner, sample programs. The active part of `main.cpp` builds one function by calls
  the middle end's models make in every order.

Memory is never freed by the modelled calls, so objects are not destroyed.

## Plan

Order: most important behaviour first.

1. *Done*: `UseDef`, `SymList`, `IRBuilder`, `DomTree`, `Mem2Reg`; `Lexer`, `LRTable`,
   `TreeBuilder`, `Parser`, `Derivation`, `Reader`; `TypeChecker`, `CodeGen`, `Frontend`,
   `ScopeDiscipline`; the proofs above.
2. Proofs: that a tree of the parser keeps the words of the stack; that a table with all
   its entries rejects no sentence, with the generator written without RECURSIVE
   operators; that the visitors of `Frontend` leave scopes and loops as they found them.
3. Abstract specifications: *a relation of uses* (a set of value–user pairs with add and
   replace) that UseDef implements as long as no value replaces another one twice; *a
   set of nodes with owners and names* for SymList; *the dominance relation* for DomTree.
4. The rest of the middle end: Mem2Reg on IRBuilder's use lists rather than on a
   function of its own (then the slots of a PHI node meet the stale predecessors),
   `SlotTracker`, a module-level instance of SymList.
5. The composition of `Reader` and `Frontend`: programs as texts, so that reversed
   arguments and incomplete types reach the checker.

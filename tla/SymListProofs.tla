---------------------------- MODULE SymListProofs ----------------------------
(***************************************************************************)
(* Proofs about SymList, for every set of functions, blocks, instructions  *)
(* and names and every bound.                                              *)
(*                                                                         *)
(* Lists, parents and tables are tied together: an entry is true because   *)
(* the value's function never changes once it has one, and its function    *)
(* never changes because a node with a parent is not inserted again.  The  *)
(* inductive invariant is the conjunction of the properties, with the      *)
(* domains of the names and the tables.                                    *)
(***************************************************************************)
EXTENDS SymList, BasicLemmas

(* The names are a function of the values, the tables one of the functions. *)
MapsOK ==
  /\ name = [v \in Named |-> name[v]]
  /\ table = [f \in Func |-> table[f]]

SLInv ==
  /\ SLTypeOK
  /\ MapsOK
  /\ LinkedNodesKnowTheirOwner
  /\ EntriesAreTrue
  /\ NamedValuesHaveEntries

(* The new entry and the name of v after reinsertValue: it is an entry the  *)
(* table did not have.                                                      *)
LEMMA ReinsertEntry ==
  ASSUME lastUnique \in [Func -> 0 .. MaxUnique],
         NEW f \in Func, NEW tab, NEW n, NEW v, ReinsertValue(f, tab, n, v)
  PROVE  /\ lastUnique' \in [Func -> 0 .. MaxUnique]
         /\ \E m : /\ m \notin DOMAIN tab
                   /\ n \notin DOMAIN tab => m = n
                   /\ table' = [table EXCEPT ![f] = WithEntry(tab, m, v)]
                   /\ name' = [name EXCEPT ![v] = m]
<1>1. CASE n \notin DOMAIN tab
  BY <1>1 DEF ReinsertValue
<1>2. CASE n \in DOMAIN tab
  <2>1. PICK u \in lastUnique[f] + 1 .. MaxUnique :
          /\ Append(n, u) \notin DOMAIN tab
          /\ table' = [table EXCEPT ![f] = WithEntry(tab, Append(n, u), v)]
          /\ name' = [name EXCEPT ![v] = Append(n, u)]
          /\ lastUnique' = [lastUnique EXCEPT ![f] = u]
    BY <1>2 DEF ReinsertValue, MakeUniqueName
  <2>2. MaxUnique \in Nat /\ lastUnique[f] \in Nat
    BY BoundsAssumption
  <2>3. lastUnique' \in [Func -> 0 .. MaxUnique]
    BY <2>1, <2>2
  <2> QED BY <1>2, <2>1, <2>3
<1> QED BY <1>1, <1>2

(* What reinsertValue leaves alone and what it adds.                        *)
LEMMA ReinsertFacts ==
  ASSUME lastUnique \in [Func -> 0 .. MaxUnique], MapsOK,
         NEW f \in Func, NEW tab, NEW n, NEW v \in Named, ReinsertValue(f, tab, n, v)
  PROVE  /\ lastUnique' \in [Func -> 0 .. MaxUnique]
         /\ MapsOK'
         /\ \A w \in Named \ {v} : name'[w] = name[w]
         /\ \A g \in Func \ {f} : table'[g] = table[g]
         /\ name'[v] \notin DOMAIN tab
         /\ n \notin DOMAIN tab => name'[v] = n
         /\ DOMAIN table'[f] = DOMAIN tab \cup {name'[v]}
         /\ table'[f][name'[v]] = v
         /\ \A m \in DOMAIN tab : table'[f][m] = tab[m]
<1>1. PICK m : /\ m \notin DOMAIN tab
               /\ n \notin DOMAIN tab => m = n
               /\ table' = [table EXCEPT ![f] = WithEntry(tab, m, v)]
               /\ name' = [name EXCEPT ![v] = m]
  BY ReinsertEntry
<1>2. lastUnique' \in [Func -> 0 .. MaxUnique]
  BY ReinsertEntry
<1>3. name' = [w \in Named |-> IF w = v THEN m ELSE name[w]]
  BY <1>1 DEF MapsOK
<1>4. table' = [g \in Func |-> IF g = f THEN WithEntry(tab, m, v) ELSE table[g]]
  BY <1>1 DEF MapsOK
<1>5. /\ DOMAIN WithEntry(tab, m, v) = DOMAIN tab \cup {m}
      /\ WithEntry(tab, m, v)[m] = v
      /\ \A k \in DOMAIN tab : WithEntry(tab, m, v)[k] = tab[k]
  BY <1>1 DEF WithEntry
<1>6. name'[v] = m /\ table'[f] = WithEntry(tab, m, v)
  BY <1>3, <1>4
<1>7. MapsOK'
  BY <1>3, <1>4 DEF MapsOK
<1>8. /\ \A w \in Named \ {v} : name'[w] = name[w]
      /\ \A g \in Func \ {f} : table'[g] = table[g]
  BY <1>3, <1>4
<1> QED BY <1>1, <1>2, <1>5, <1>6, <1>7, <1>8

(* v entered the table of f, or had no name or no table to enter.  No entry *)
(* changed.                                                                 *)
LEMMA EnterFacts ==
  ASSUME lastUnique \in [Func -> 0 .. MaxUnique], MapsOK,
         NEW f \in Func \cup {NoParent}, NEW v \in Named, EnterTable(f, v)
  PROVE  /\ lastUnique' \in [Func -> 0 .. MaxUnique]
         /\ MapsOK'
         /\ \A w \in Named \ {v} : name'[w] = name[w]
         /\ name[v] = <<>> => name'[v] = <<>>
         /\ \A g \in Func : \A m \in DOMAIN table[g] :
              m \in DOMAIN table'[g] /\ table'[g][m] = table[g][m]
         /\ \A g \in Func : \A m \in DOMAIN table'[g] \ DOMAIN table[g] :
              g = f /\ m = name'[v] /\ table'[g][m] = v /\ name[v] # <<>>
         /\ f # NoParent /\ name'[v] # <<>> =>
              name'[v] \in DOMAIN table'[f] /\ table'[f][name'[v]] = v
         /\ f = NoParent => name' = name
<1>1. CASE f # NoParent /\ name[v] # <<>>
  <2>1. f \in Func /\ ReinsertValue(f, table[f], name[v], v)
    BY <1>1 DEF EnterTable
  <2>2. /\ lastUnique' \in [Func -> 0 .. MaxUnique]
        /\ MapsOK'
        /\ \A w \in Named \ {v} : name'[w] = name[w]
        /\ \A g \in Func \ {f} : table'[g] = table[g]
        /\ name'[v] \notin DOMAIN table[f]
        /\ DOMAIN table'[f] = DOMAIN table[f] \cup {name'[v]}
        /\ table'[f][name'[v]] = v
        /\ \A m \in DOMAIN table[f] : table'[f][m] = table[f][m]
    BY <2>1, ReinsertFacts
  <2> QED BY <1>1, <2>1, <2>2
<1>2. CASE ~(f # NoParent /\ name[v] # <<>>)
  <2>1. UNCHANGED <<table, name, lastUnique>>
    BY <1>2 DEF EnterTable
  <2> QED BY <1>2, <2>1 DEF MapsOK
<1> QED BY <1>1, <1>2

-----------------------------------------------------------------------------
(* The function of v after a step.                                          *)
NewFuncOf(v) ==
  IF v \in Block THEN blockParent'[v]
  ELSE IF instParent'[v] = NoParent THEN NoParent ELSE blockParent'[instParent'[v]]

(* The properties of the tables after a step.                               *)
LEMMA TablesAfter ==
  /\ EntriesAreTrue' <=>
       \A f \in Func : \A n \in DOMAIN table'[f] :
         /\ NewFuncOf(table'[f][n]) = f
         /\ table'[f][n] \notin renamed' => name'[table'[f][n]] = n
  /\ NamedValuesHaveEntries' <=>
       \A v \in Named \ unlisted' : NewFuncOf(v) # NoParent /\ name'[v] # <<>> =>
         name'[v] \in DOMAIN table'[NewFuncOf(v)] /\ table'[NewFuncOf(v)][name'[v]] = v
BY DEF EntriesAreTrue, NamedValuesHaveEntries, FuncOf, NewFuncOf, Named

(* The function of a value, from its parents.                               *)
LEMMA FuncOfBlock == \A b \in Block : FuncOf(b) = blockParent[b] /\ NewFuncOf(b) = blockParent'[b]
BY DEF FuncOf, NewFuncOf

LEMMA FuncOfInst ==
  \A i \in Inst :
    /\ FuncOf(i) = IF instParent[i] = NoParent THEN NoParent ELSE blockParent[instParent[i]]
    /\ NewFuncOf(i) = IF instParent'[i] = NoParent THEN NoParent
                      ELSE blockParent'[instParent'[i]]
BY ObjectsAssumption DEF FuncOf, NewFuncOf

LEMMA FuncOfType == SLTypeOK => \A v \in Named : FuncOf(v) \in Func \cup {NoParent}
BY FuncOfBlock, FuncOfInst DEF SLTypeOK, Named

(* A value without a function enters the table of f, and takes along only   *)
(* values without a function that are counted in unlisted.                  *)
LEMMA EnterKeepsTables ==
  ASSUME SLInv, NEW f \in Func \cup {NoParent}, NEW v \in Named, EnterTable(f, v),
         FuncOf(v) = NoParent, NewFuncOf(v) = f,
         \A w \in Named \ {v} : NewFuncOf(w) = FuncOf(w) \/ (FuncOf(w) = NoParent /\ w \in unlisted'),
         unlisted \subseteq unlisted', renamed' = renamed
  PROVE  EntriesAreTrue' /\ NamedValuesHaveEntries'
<1>1. SLTypeOK /\ MapsOK /\ EntriesAreTrue /\ NamedValuesHaveEntries
  BY DEF SLInv
<1>2. lastUnique \in [Func -> 0 .. MaxUnique]
  BY <1>1 DEF SLTypeOK
<1>3. /\ \A w \in Named \ {v} : name'[w] = name[w]
      /\ \A g \in Func : \A m \in DOMAIN table[g] :
           m \in DOMAIN table'[g] /\ table'[g][m] = table[g][m]
      /\ \A g \in Func : \A m \in DOMAIN table'[g] \ DOMAIN table[g] :
           g = f /\ m = name'[v] /\ table'[g][m] = v /\ name[v] # <<>>
      /\ f # NoParent /\ name'[v] # <<>> =>
           name'[v] \in DOMAIN table'[f] /\ table'[f][name'[v]] = v
  BY <1>1, <1>2, EnterFacts
<1>4. ASSUME NEW g \in Func, NEW m \in DOMAIN table'[g]
      PROVE  /\ NewFuncOf(table'[g][m]) = g
             /\ table'[g][m] \notin renamed' => name'[table'[g][m]] = m
  <2>1. CASE m \in DOMAIN table[g]
    <3>1. PICK w \in Named : table[g][m] = w /\ table'[g][m] = w
      BY <1>1, <1>3, <2>1 DEF SLTypeOK
    <3>2. FuncOf(w) = g /\ (w \notin renamed => name[w] = m)
      BY <1>1, <2>1, <3>1 DEF EntriesAreTrue
    <3>3. w # v /\ g # NoParent
      BY <3>2, ObjectsAssumption
    <3>4. NewFuncOf(w) = g /\ name'[w] = name[w]
      BY <1>3, <3>2, <3>3
    <3> QED BY <3>1, <3>2, <3>4
  <2>2. CASE m \notin DOMAIN table[g]
    <3>1. g = f /\ m = name'[v] /\ table'[g][m] = v
      BY <1>3, <2>2
    <3> QED BY <3>1
  <2> QED BY <2>1, <2>2
<1>5. ASSUME NEW w \in Named \ unlisted', NewFuncOf(w) # NoParent, name'[w] # <<>>
      PROVE  name'[w] \in DOMAIN table'[NewFuncOf(w)] /\ table'[NewFuncOf(w)][name'[w]] = w
  <2>1. CASE w = v
    <3>1. NewFuncOf(w) = f
      BY <2>1
    <3> QED BY <1>3, <1>5, <2>1, <3>1
  <2>2. CASE w # v
    <3>1. w \in Named \ unlisted /\ NewFuncOf(w) = FuncOf(w) /\ name'[w] = name[w]
      BY <1>3, <1>5, <2>2
    <3>2. FuncOf(w) # NoParent /\ FuncOf(w) \in Func /\ name[w] # <<>>
      BY <1>1, <1>5, <3>1, FuncOfType
    <3>3. name[w] \in DOMAIN table[FuncOf(w)] /\ table[FuncOf(w)][name[w]] = w
      BY <1>1, <3>1, <3>2 DEF NamedValuesHaveEntries
    <3> QED BY <1>3, <3>1, <3>2, <3>3
  <2> QED BY <2>1, <2>2
<1> QED BY <1>4, <1>5, TablesAfter

(* The types of the names and tables after v entered the table of f.        *)
LEMMA EnterKeepsTypes ==
  ASSUME SLInv, NEW f \in Func \cup {NoParent}, NEW v \in Named, EnterTable(f, v)
  PROVE  /\ MapsOK'
         /\ \A w \in Named : name'[w] # <<>> => w \notin VoidInst
         /\ \A g \in Func : \A n \in DOMAIN table'[g] : table'[g][n] \in Named \ VoidInst
         /\ lastUnique' \in [Func -> 0 .. MaxUnique]
<1>1. /\ MapsOK /\ lastUnique \in [Func -> 0 .. MaxUnique]
      /\ \A w \in Named : name[w] # <<>> => w \notin VoidInst
      /\ \A g \in Func : \A n \in DOMAIN table[g] : table[g][n] \in Named \ VoidInst
  BY DEF SLInv, SLTypeOK
<1>2. /\ lastUnique' \in [Func -> 0 .. MaxUnique]
      /\ MapsOK'
      /\ \A w \in Named \ {v} : name'[w] = name[w]
      /\ name[v] = <<>> => name'[v] = <<>>
      /\ \A g \in Func : \A m \in DOMAIN table[g] :
           m \in DOMAIN table'[g] /\ table'[g][m] = table[g][m]
      /\ \A g \in Func : \A m \in DOMAIN table'[g] \ DOMAIN table[g] :
           g = f /\ m = name'[v] /\ table'[g][m] = v /\ name[v] # <<>>
  BY <1>1, EnterFacts
<1>3. \A w \in Named : name'[w] # <<>> => w \notin VoidInst
  BY <1>1, <1>2
<1>4. ASSUME NEW g \in Func, NEW n \in DOMAIN table'[g]
      PROVE  table'[g][n] \in Named \ VoidInst
  <2>1. CASE n \in DOMAIN table[g]
    BY <1>1, <1>2, <2>1
  <2>2. CASE n \notin DOMAIN table[g]
    BY <1>1, <1>2, <2>2
  <2> QED BY <2>1, <2>2
<1> QED BY <1>2, <1>3, <1>4

-----------------------------------------------------------------------------
(* The parent of every node on a list is the list's owner, and no node is   *)
(* on a list twice.                                                         *)
Linked(list, parent, owners) ==
  \A o \in owners : /\ \A x \in ToSet(list[o]) : parent[x] = o
                    /\ IsInjective(list[o])

(* The lists and parents after an insertion, the lists after an unlinking.  *)
Inserted(list, o, p, e) == [list EXCEPT ![o] = InsertAt(list[o], p, e)]
Adopted(parent, e, o) == [parent EXCEPT ![e] = o]
Unlinked(list, o, e) == [list EXCEPT ![o] = Unlink(list[o], e)]

LEMMA LinkedParts ==
  /\ LinkedNodesKnowTheirOwner <=> /\ Linked(blockList, blockParent, Func)
                                   /\ Linked(instList, instParent, Block)
  /\ LinkedNodesKnowTheirOwner' <=> /\ Linked(blockList', blockParent', Func)
                                    /\ Linked(instList', instParent', Block)
BY DEF LinkedNodesKnowTheirOwner, Linked

(* A node without a parent is on no list; inserting it keeps the lists of   *)
(* the other owners and adds it to one.                                     *)
LEMMA InsertKeepsLists ==
  ASSUME NEW O, NEW N, NoParent \notin O, NEW list \in [O -> Seq(N)],
         NEW parent \in [N -> O \cup {NoParent}], Linked(list, parent, O),
         NEW o \in O, NEW p \in 1 .. Len(list[o]) + 1, NEW e \in N, parent[e] = NoParent
  PROVE  /\ Inserted(list, o, p, e) \in [O -> Seq(N)]
         /\ Adopted(parent, e, o) \in [N -> O \cup {NoParent}]
         /\ Linked(Inserted(list, o, p, e), Adopted(parent, e, o), O)
<1> DEFINE list2 == Inserted(list, o, p, e)
           parent2 == Adopted(parent, e, o)
           new == InsertAt(list[o], p, e)
<1>1. \A q \in O : e \notin ToSet(list[q])
  BY DEF Linked
<1>2. new \in Seq(N)
  <2>1. list[o] \in Seq(N)
    OBVIOUS
  <2> QED BY <2>1, InsertAtPositions
<1>3. /\ ToSet(new) \subseteq ToSet(list[o]) \cup {e}
      /\ IsInjective(list[o]) => IsInjective(new)
  <2>1. list[o] \in Seq(N) /\ e \notin ToSet(list[o])
    BY <1>1
  <2> QED BY <2>1, InsertAtDistinct
<1> HIDE DEF new, list2, parent2
<1>4. list2 = [q \in O |-> IF q = o THEN new ELSE list[q]]
  BY DEF new, list2, Inserted
<1>5. parent2 = [x \in N |-> IF x = e THEN o ELSE parent[x]]
  BY DEF parent2, Adopted
<1>6. \A q \in O : ToSet(list[q]) \subseteq N
  <2> SUFFICES ASSUME NEW q \in O PROVE ToSet(list[q]) \subseteq N
    OBVIOUS
  <2>1. list[q] \in Seq(N)
    OBVIOUS
  <2>2. DOMAIN list[q] = 1 .. Len(list[q]) /\ \A k \in 1 .. Len(list[q]) : list[q][k] \in N
    BY <2>1, LenProperties
  <2> QED BY <2>2 DEF ToSet
<1>7. ASSUME NEW q \in O
      PROVE  /\ \A x \in ToSet(list2[q]) : parent2[x] = q
             /\ IsInjective(list2[q])
  <2>1. CASE q = o
    <3>1. list2[q] = new
      BY <1>4, <2>1
    <3>2. \A x \in ToSet(new) : parent2[x] = q
      BY <1>3, <1>5, <1>6, <2>1 DEF Linked
    <3>3. IsInjective(new)
      BY <1>3 DEF Linked
    <3> QED BY <3>1, <3>2, <3>3
  <2>2. CASE q # o
    <3>1. list2[q] = list[q]
      BY <1>4, <2>2
    <3>2. \A x \in ToSet(list[q]) : parent2[x] = q
      BY <1>1, <1>5, <1>6 DEF Linked
    <3> QED BY <3>1, <3>2 DEF Linked
  <2> QED BY <2>1, <2>2
<1>8. list2 \in [O -> Seq(N)]
  BY <1>2, <1>4
<1>9. parent2 \in [N -> O \cup {NoParent}]
  BY <1>5
<1> QED BY <1>7, <1>8, <1>9 DEF Linked, list2, parent2

(* Unlinking a node: the parents stay.                                      *)
LEMMA UnlinkKeepsLists ==
  ASSUME NEW O, NEW N, NEW list \in [O -> Seq(N)], NEW parent, Linked(list, parent, O),
         NEW o \in O, NEW e
  PROVE  /\ Unlinked(list, o, e) \in [O -> Seq(N)]
         /\ Linked(Unlinked(list, o, e), parent, O)
<1> DEFINE list2 == Unlinked(list, o, e)
           new == Unlink(list[o], e)
<1>1. list[o] \in Seq(N)
  OBVIOUS
<1>2. /\ new \in Seq(N) /\ ToSet(new) \subseteq ToSet(list[o])
      /\ IsInjective(list[o]) => IsInjective(new)
  <2>1. CASE Contains(list[o], e)
    <3> DEFINE k == CHOOSE k \in DOMAIN list[o] : list[o][k] = e
    <3>1. DOMAIN list[o] = 1 .. Len(list[o])
      BY <1>1, LenProperties
    <3>2. k \in 1 .. Len(list[o])
      BY <2>1, <3>1 DEF Contains
    <3>3. new = RemoveAt(list[o], k)
      BY <2>1 DEF Unlink
    <3> HIDE DEF k, new
    <3> QED BY <1>1, <3>2, <3>3, RemoveAtNodes, RemoveAtDistinct
  <2>2. CASE ~Contains(list[o], e)
    BY <1>1, <2>2 DEF Unlink
  <2> QED BY <2>1, <2>2
<1> HIDE DEF new, list2
<1>3. list2 = [q \in O |-> IF q = o THEN new ELSE list[q]]
  BY DEF new, list2, Unlinked
<1>4. list2 \in [O -> Seq(N)]
  BY <1>2, <1>3
<1>5. ASSUME NEW q \in O
      PROVE  /\ \A x \in ToSet(list2[q]) : parent[x] = q
             /\ IsInjective(list2[q])
  BY <1>2, <1>3 DEF Linked
<1> QED BY <1>4, <1>5 DEF Linked, list2

-----------------------------------------------------------------------------
LEMMA SLInitInv == SLInit => SLInv
<1> SUFFICES ASSUME SLInit PROVE SLInv
  OBVIOUS
<1>1. blockList \in [Func -> Seq(Block)] /\ instList \in [Block -> Seq(Inst)]
  BY EmptySeq DEF SLInit
<1>2. SLTypeOK
  <2>1. lastUnique \in [Func -> 0 .. MaxUnique] /\ namings \in 0 .. MaxNamings
    BY BoundsAssumption DEF SLInit
  <2>2. \A v \in Named : name[v] = <<>>
    BY DEF SLInit
  <2>3. \A f \in Func : DOMAIN table[f] = {}
    BY DEF SLInit
  <2> QED BY <1>1, <2>1, <2>2, <2>3 DEF SLInit, SLTypeOK
<1>3. MapsOK
  BY DEF SLInit, MapsOK
<1>4. ToSet(<<>>) = {} /\ IsInjective(<<>>)
  BY DEF ToSet, IsInjective
<1>5. LinkedNodesKnowTheirOwner
  BY <1>4 DEF SLInit, LinkedNodesKnowTheirOwner
<1>6. EntriesAreTrue /\ NamedValuesHaveEntries
  BY DEF SLInit, EntriesAreTrue, NamedValuesHaveEntries
<1> QED BY <1>2, <1>3, <1>5, <1>6 DEF SLInv

(* setName: the entry under the new name changes hands, which unlisted      *)
(* records; the entry under the old name stays, which renamed records.      *)
LEMMA SetNameInv ==
  ASSUME SLInv, NEW v \in Named, NEW n \in Given, SetName(v, n)
  PROVE  SLInv'
<1> DEFINE f == FuncOf(v)
<1>1. SLTypeOK /\ MapsOK /\ LinkedNodesKnowTheirOwner /\ EntriesAreTrue /\ NamedValuesHaveEntries
  BY DEF SLInv
<1>2. /\ v \notin VoidInst /\ namings < MaxNamings /\ namings' = namings + 1
      /\ renamed' = IF f # NoParent THEN renamed \cup {v} ELSE renamed
      /\ UNCHANGED <<blockList, instList, blockParent, instParent, exited>>
  BY DEF SetName
<1>3. f \in Func \cup {NoParent}
  BY <1>1, FuncOfType
<1>4. \A w \in Named : NewFuncOf(w) = FuncOf(w)
  BY <1>2 DEF FuncOf, NewFuncOf
<1>5. LinkedNodesKnowTheirOwner'
  BY <1>1, <1>2 DEF LinkedNodesKnowTheirOwner
<1> HIDE DEF f
<1>6. /\ blockList' \in [Func -> Seq(Block)]
      /\ instList' \in [Block -> Seq(Inst)]
      /\ blockParent' \in [Block -> Func \cup {NoParent}]
      /\ instParent' \in [Inst -> Block \cup {NoParent}]
      /\ exited' \in BOOLEAN
      /\ namings' \in 0 .. MaxNamings
      /\ renamed' \subseteq Named
  BY <1>1, <1>2, BoundsAssumption DEF SLTypeOK
<1>7. CASE f # NoParent /\ n # <<>>
  <2> DEFINE tab == WithoutEntry(table[f], n)
  <2>1. /\ ReinsertValue(f, tab, n, v)
        /\ unlisted' = (unlisted \ {v}) \cup
             {w \in Named \ {v} : n \in DOMAIN table[f] /\ table[f][n] = w /\ name[w] = n}
    BY <1>7 DEF SetName, f
  <2>2. f \in Func
    BY <1>3, <1>7
  <2>3. /\ DOMAIN tab = DOMAIN table[f] \ {n}
        /\ \A m \in DOMAIN tab : tab[m] = table[f][m]
    BY DEF WithoutEntry
  <2> HIDE DEF tab
  <2>4. lastUnique \in [Func -> 0 .. MaxUnique]
    BY <1>1 DEF SLTypeOK
  <2>5. /\ lastUnique' \in [Func -> 0 .. MaxUnique]
        /\ MapsOK'
        /\ \A w \in Named \ {v} : name'[w] = name[w]
        /\ \A g \in Func \ {f} : table'[g] = table[g]
        /\ name'[v] = n
        /\ DOMAIN table'[f] = DOMAIN tab \cup {n}
        /\ table'[f][n] = v
        /\ \A m \in DOMAIN tab : table'[f][m] = tab[m]
    BY <1>1, <2>1, <2>2, <2>3, <2>4, ReinsertFacts
  <2>6. ASSUME NEW g \in Func, NEW m \in DOMAIN table'[g]
        PROVE  \/ g = f /\ m = n /\ table'[g][m] = v
               \/ m \in DOMAIN table[g] /\ table'[g][m] = table[g][m]
    BY <2>3, <2>5
  <2>7. SLTypeOK'
    <3>1. \A w \in Named : name'[w] # <<>> => w \notin VoidInst
      BY <1>1, <1>2, <2>5 DEF SLTypeOK
    <3>2. \A g \in Func : \A m \in DOMAIN table'[g] : table'[g][m] \in Named \ VoidInst
      BY <1>1, <1>2, <2>6 DEF SLTypeOK
    <3>3. unlisted' \subseteq Named
      BY <1>1, <2>1 DEF SLTypeOK
    <3> QED BY <1>6, <2>5, <3>1, <3>2, <3>3 DEF SLTypeOK
  <2>8. ASSUME NEW g \in Func, NEW m \in DOMAIN table'[g]
        PROVE  /\ NewFuncOf(table'[g][m]) = g
               /\ table'[g][m] \notin renamed' => name'[table'[g][m]] = m
    <3>1. CASE g = f /\ m = n /\ table'[g][m] = v
      BY <1>4, <2>5, <3>1 DEF f
    <3>2. CASE m \in DOMAIN table[g] /\ table'[g][m] = table[g][m]
      <4>1. PICK w \in Named : table[g][m] = w
        BY <1>1, <3>2 DEF SLTypeOK
      <4>2. FuncOf(w) = g /\ (w \notin renamed => name[w] = m)
        BY <1>1, <3>2, <4>1 DEF EntriesAreTrue
      <4>3. w \notin renamed' => w # v /\ w \notin renamed
        BY <1>2, <1>7 DEF f
      <4> QED BY <1>4, <2>5, <3>2, <4>1, <4>2, <4>3
    <3> QED BY <2>6, <3>1, <3>2
  <2>9. ASSUME NEW w \in Named \ unlisted', NewFuncOf(w) # NoParent, name'[w] # <<>>
        PROVE  name'[w] \in DOMAIN table'[NewFuncOf(w)] /\ table'[NewFuncOf(w)][name'[w]] = w
    <3>1. CASE w = v
      <4>1. NewFuncOf(w) = f
        BY <1>4, <3>1 DEF f
      <4> QED BY <2>5, <3>1, <4>1
    <3>2. CASE w # v
      <4>1. /\ w \notin unlisted /\ NewFuncOf(w) = FuncOf(w) /\ name'[w] = name[w]
            /\ FuncOf(w) \in Func
        BY <1>1, <1>4, <2>1, <2>5, <2>9, <3>2, FuncOfType
      <4>2. name[w] \in DOMAIN table[FuncOf(w)] /\ table[FuncOf(w)][name[w]] = w
        BY <1>1, <2>9, <4>1 DEF NamedValuesHaveEntries
      <4>3. ~(FuncOf(w) = f /\ name[w] = n)
        BY <2>1, <2>9, <3>2, <4>2
      <4>4. CASE FuncOf(w) # f
        BY <2>5, <4>1, <4>2, <4>4
      <4>5. CASE FuncOf(w) = f /\ name[w] # n
        BY <2>3, <2>5, <4>1, <4>2, <4>5
      <4> QED BY <4>3, <4>4, <4>5
    <3> QED BY <3>1, <3>2
  <2>10. EntriesAreTrue' /\ NamedValuesHaveEntries'
    BY <2>8, <2>9, TablesAfter
  <2> QED BY <1>5, <2>5, <2>7, <2>10 DEF SLInv
<1>8. CASE ~(f # NoParent /\ n # <<>>)
  <2>1. name' = [name EXCEPT ![v] = n] /\ UNCHANGED <<table, lastUnique, unlisted>>
    BY <1>8 DEF SetName, f
  <2>2. name' = [w \in Named |-> IF w = v THEN n ELSE name[w]]
    BY <1>1, <2>1 DEF MapsOK
  <2>3. MapsOK'
    BY <1>1, <2>1, <2>2 DEF MapsOK
  <2>4. SLTypeOK'
    BY <1>1, <1>2, <1>6, <2>1, <2>2 DEF SLTypeOK
  <2>5. ASSUME NEW g \in Func, NEW m \in DOMAIN table'[g]
        PROVE  /\ NewFuncOf(table'[g][m]) = g
               /\ table'[g][m] \notin renamed' => name'[table'[g][m]] = m
    <3>1. PICK w \in Named : table[g][m] = w /\ table'[g][m] = w
      BY <1>1, <2>1 DEF SLTypeOK
    <3>2. FuncOf(w) = g /\ (w \notin renamed => name[w] = m)
      BY <1>1, <2>1, <3>1 DEF EntriesAreTrue
    <3>3. w \notin renamed' => w # v /\ w \notin renamed
      BY <1>2, <3>2, ObjectsAssumption DEF f
    <3> QED BY <1>4, <2>2, <3>1, <3>2, <3>3
  <2>6. ASSUME NEW w \in Named \ unlisted', NewFuncOf(w) # NoParent, name'[w] # <<>>
        PROVE  name'[w] \in DOMAIN table'[NewFuncOf(w)] /\ table'[NewFuncOf(w)][name'[w]] = w
    <3>1. w # v
      BY <1>4, <1>8, <2>2, <2>6 DEF f
    <3>2. name'[w] = name[w] /\ NewFuncOf(w) = FuncOf(w) /\ w \in Named \ unlisted
      BY <1>4, <2>1, <2>2, <3>1
    <3> QED BY <1>1, <2>1, <2>6, <3>2 DEF NamedValuesHaveEntries
  <2>7. EntriesAreTrue' /\ NamedValuesHaveEntries'
    BY <2>5, <2>6, TablesAfter
  <2> QED BY <1>5, <2>3, <2>4, <2>7 DEF SLInv
<1> QED BY <1>7, <1>8

LEMMA InsertInstInv ==
  ASSUME SLInv, NEW i \in Inst, NEW b \in Block, NEW p \in 1 .. Len(instList[b]) + 1,
         InsertInst(b, p, i)
  PROVE  SLInv'
<1>1. SLTypeOK /\ LinkedNodesKnowTheirOwner
  BY DEF SLInv
<1>2. /\ instParent[i] = NoParent
      /\ instList' = Inserted(instList, b, p, i)
      /\ instParent' = Adopted(instParent, i, b)
      /\ EnterTable(blockParent[b], i)
      /\ UNCHANGED <<blockList, blockParent, exited, namings, renamed, unlisted>>
  BY DEF InsertInst, InsertableInst, Inserted, Adopted
<1>3. i \in Named /\ blockParent[b] \in Func \cup {NoParent} /\ NoParent \notin Block
  BY <1>1, ObjectsAssumption DEF Named, SLTypeOK
<1>4. /\ instList' \in [Block -> Seq(Inst)]
      /\ instParent' \in [Inst -> Block \cup {NoParent}]
      /\ Linked(instList', instParent', Block)
  <2>1. /\ instList \in [Block -> Seq(Inst)]
        /\ instParent \in [Inst -> Block \cup {NoParent}]
        /\ Linked(instList, instParent, Block)
    BY <1>1, LinkedParts DEF SLTypeOK
  <2> QED BY <1>2, <1>3, <2>1, InsertKeepsLists
<1>5. LinkedNodesKnowTheirOwner'
  BY <1>1, <1>2, <1>4, LinkedParts
<1>6. /\ MapsOK'
      /\ \A w \in Named : name'[w] # <<>> => w \notin VoidInst
      /\ \A g \in Func : \A n \in DOMAIN table'[g] : table'[g][n] \in Named \ VoidInst
      /\ lastUnique' \in [Func -> 0 .. MaxUnique]
  BY <1>2, <1>3, EnterKeepsTypes
<1>7. SLTypeOK'
  BY <1>1, <1>2, <1>4, <1>6 DEF SLTypeOK
<1>8. FuncOf(i) = NoParent
  BY <1>2, FuncOfInst
<1>9. NewFuncOf(i) = blockParent[b]
  <2>1. instParent'[i] = b
    BY <1>1, <1>2 DEF SLTypeOK, Adopted
  <2> QED BY <1>2, <1>3, <2>1, FuncOfInst
<1>10. \A w \in Named \ {i} : NewFuncOf(w) = FuncOf(w)
  <2>1. \A w \in Inst \ {i} : instParent'[w] = instParent[w]
    BY <1>1, <1>2 DEF SLTypeOK, Adopted
  <2> QED BY <1>2, <2>1 DEF FuncOf, NewFuncOf, Named
<1>11. EntriesAreTrue' /\ NamedValuesHaveEntries'
  BY <1>2, <1>3, <1>8, <1>9, <1>10, EnterKeepsTables
<1> QED BY <1>5, <1>6, <1>7, <1>11 DEF SLInv

(* The instructions of the block get a function without an entry.           *)
LEMMA InsertBlockInv ==
  ASSUME SLInv, NEW b \in Block, NEW f \in Func, NEW p \in 1 .. Len(blockList[f]) + 1,
         InsertBlock(f, p, b)
  PROVE  SLInv'
<1>1. SLTypeOK /\ LinkedNodesKnowTheirOwner
  BY DEF SLInv
<1>2. /\ blockParent[b] = NoParent
      /\ blockList' = Inserted(blockList, f, p, b)
      /\ blockParent' = Adopted(blockParent, b, f)
      /\ EnterTable(f, b)
      /\ unlisted' = unlisted \cup {i \in Inst : instParent[i] = b}
      /\ UNCHANGED <<instList, instParent, exited, namings, renamed>>
  BY DEF InsertBlock, InsertableBlock, Inserted, Adopted
<1>3. b \in Named /\ f \in Func \cup {NoParent} /\ NoParent \notin Func
  BY ObjectsAssumption DEF Named
<1>4. /\ blockList' \in [Func -> Seq(Block)]
      /\ blockParent' \in [Block -> Func \cup {NoParent}]
      /\ Linked(blockList', blockParent', Func)
  <2>1. /\ blockList \in [Func -> Seq(Block)]
        /\ blockParent \in [Block -> Func \cup {NoParent}]
        /\ Linked(blockList, blockParent, Func)
    BY <1>1, LinkedParts DEF SLTypeOK
  <2> QED BY <1>2, <1>3, <2>1, InsertKeepsLists
<1>5. LinkedNodesKnowTheirOwner'
  BY <1>1, <1>2, <1>4, LinkedParts
<1>6. /\ MapsOK'
      /\ \A w \in Named : name'[w] # <<>> => w \notin VoidInst
      /\ \A g \in Func : \A n \in DOMAIN table'[g] : table'[g][n] \in Named \ VoidInst
      /\ lastUnique' \in [Func -> 0 .. MaxUnique]
  BY <1>2, <1>3, EnterKeepsTypes
<1>7. unlisted' \subseteq Named /\ unlisted \subseteq unlisted'
  BY <1>1, <1>2 DEF SLTypeOK, Named
<1>8. SLTypeOK'
  BY <1>1, <1>2, <1>4, <1>6, <1>7 DEF SLTypeOK
<1>9. FuncOf(b) = NoParent /\ NewFuncOf(b) = f
  BY <1>1, <1>2, FuncOfBlock DEF SLTypeOK, Adopted
<1>10. ASSUME NEW w \in Named \ {b}
       PROVE  NewFuncOf(w) = FuncOf(w) \/ (FuncOf(w) = NoParent /\ w \in unlisted')
  <2>1. \A c \in Block \ {b} : blockParent'[c] = blockParent[c]
    BY <1>1, <1>2 DEF SLTypeOK, Adopted
  <2>2. CASE w \in Block
    BY <2>1, <2>2, FuncOfBlock
  <2>3. CASE w \in Inst
    <3>1. instParent'[w] = instParent[w] /\ instParent[w] \in Block \cup {NoParent}
      BY <1>1, <1>2, <2>3 DEF SLTypeOK
    <3>2. CASE instParent[w] = b
      BY <1>2, <2>3, <3>2, FuncOfInst
    <3>3. CASE instParent[w] # b
      BY <2>1, <2>3, <3>1, <3>3, FuncOfInst
    <3> QED BY <3>2, <3>3
  <2> QED BY <2>2, <2>3 DEF Named
<1>11. EntriesAreTrue' /\ NamedValuesHaveEntries'
  BY <1>2, <1>3, <1>7, <1>9, <1>10, EnterKeepsTables
<1> QED BY <1>5, <1>6, <1>8, <1>11 DEF SLInv

(* Removal changes one list and nothing that the tables depend on.          *)
LEMMA ListChangeInv ==
  ASSUME SLInv, UNCHANGED <<blockParent, instParent, name, table, lastUnique,
                            namings, renamed, unlisted>>,
         exited' \in BOOLEAN,
         blockList' \in [Func -> Seq(Block)], Linked(blockList', blockParent, Func),
         instList' \in [Block -> Seq(Inst)], Linked(instList', instParent, Block)
  PROVE  SLInv'
<1>1. SLTypeOK' /\ MapsOK'
  BY DEF SLInv, SLTypeOK, MapsOK
<1>2. LinkedNodesKnowTheirOwner'
  BY LinkedParts
<1>3. EntriesAreTrue' /\ NamedValuesHaveEntries'
  BY DEF SLInv, EntriesAreTrue, NamedValuesHaveEntries, FuncOf
<1> QED BY <1>1, <1>2, <1>3 DEF SLInv

LEMMA SLNextInv == SLInv /\ [SLNext]_slvars => SLInv'
<1> SUFFICES ASSUME SLInv, [SLNext]_slvars PROVE SLInv'
  OBVIOUS
<1>1. /\ blockList \in [Func -> Seq(Block)] /\ Linked(blockList, blockParent, Func)
      /\ instList \in [Block -> Seq(Inst)] /\ Linked(instList, instParent, Block)
      /\ blockParent \in [Block -> Func \cup {NoParent}]
      /\ instParent \in [Inst -> Block \cup {NoParent}]
      /\ exited \in BOOLEAN
  BY LinkedParts DEF SLInv, SLTypeOK
<1>2. ASSUME Exit PROVE SLInv'
  BY <1>1, <1>2, ListChangeInv DEF Exit
<1>3. ASSUME NEW v \in Named, NEW n \in Given, SetName(v, n) \/ SetNameOfVoid(v, n)
      PROVE  SLInv'
  BY <1>2, <1>3, SetNameInv DEF SetNameOfVoid
<1>4. ASSUME NEW i \in Inst, NEW b \in Block, NEW p \in 1 .. Len(instList[b]) + 1,
             InsertInst(b, p, i)
      PROVE  SLInv'
  BY <1>4, InsertInstInv
<1>5. ASSUME NEW b \in Block, NEW f \in Func, NEW p \in 1 .. Len(blockList[f]) + 1,
             InsertBlock(f, p, b)
      PROVE  SLInv'
  BY <1>5, InsertBlockInv
<1>6. ASSUME NEW v \in Named, InsertFails(v) PROVE SLInv'
  BY <1>2, <1>6 DEF InsertFails
<1>7. ASSUME NEW i \in Inst, RemoveInst(i) PROVE SLInv'
  <2>1. /\ instParent[i] \in Block
        /\ instList' = Unlinked(instList, instParent[i], i)
        /\ UNCHANGED <<blockList, blockParent, instParent, name, table, lastUnique,
                       exited, namings, renamed, unlisted>>
    BY <1>1, <1>7 DEF RemoveInst, Unlinked
  <2>2. instList' \in [Block -> Seq(Inst)] /\ Linked(instList', instParent, Block)
    BY <1>1, <2>1, UnlinkKeepsLists
  <2> QED BY <1>1, <2>1, <2>2, ListChangeInv
<1>8. ASSUME NEW b \in Block, RemoveBlock(b) PROVE SLInv'
  <2>1. /\ blockParent[b] \in Func
        /\ blockList' = Unlinked(blockList, blockParent[b], b)
        /\ UNCHANGED <<instList, blockParent, instParent, name, table, lastUnique,
                       exited, namings, renamed, unlisted>>
    BY <1>1, <1>8 DEF RemoveBlock, Unlinked
  <2>2. blockList' \in [Func -> Seq(Block)] /\ Linked(blockList', blockParent, Func)
    BY <1>1, <2>1, UnlinkKeepsLists
  <2> QED BY <1>1, <2>1, <2>2, ListChangeInv
<1>9. CASE UNCHANGED slvars
  BY <1>1, <1>9, ListChangeInv DEF slvars
<1> QED BY <1>3, <1>4, <1>5, <1>6, <1>7, <1>8, <1>9 DEF SLNext

-----------------------------------------------------------------------------
LEMMA SLInvariant == SLSpec => []SLInv
<1> QED BY SLInitInv, SLNextInv, PTL DEF SLSpec

(* Types of the state: the lists hold blocks and instructions, the tables   *)
(* values that may have a name (assertions of Value::setName), and          *)
(* LastUnique only counts up to its bound.                                  *)
THEOREM SymListTypes == SLSpec => []SLTypeOK
<1>1. SLInv => SLTypeOK
  BY DEF SLInv
<1> QED BY <1>1, SLInvariant, PTL

(* The node iterated on a list has the list's owner as parent, and is       *)
(* iterated once (dlist::insert and remove, addNodeToList).                 *)
THEOREM OwnersKnown == SLSpec => []LinkedNodesKnowTheirOwner
<1>1. SLInv => LinkedNodesKnowTheirOwner
  BY DEF SLInv
<1> QED BY <1>1, SLInvariant, PTL

(* What ValueSymbolTable holds under a name is a value of the function, and *)
(* bears the name unless setName renamed it while it had a table.           *)
THEOREM EntriesTrue == SLSpec => []EntriesAreTrue
<1>1. SLInv => EntriesAreTrue
  BY DEF SLInv
<1> QED BY <1>1, SLInvariant, PTL

(* A named value of a function is found under its name, unless its block    *)
(* was inserted after it or setName gave its entry to another value.        *)
THEOREM NamedValuesFound == SLSpec => []NamedValuesHaveEntries
<1>1. SLInv => NamedValuesHaveEntries
  BY DEF SLInv
<1> QED BY <1>1, SLInvariant, PTL

(* Only setName can take an entry away, so inserting a node keeps them all. *)
LEMMA InsertionStep ==
  ASSUME SLInv, SLNext, blockList # blockList' \/ instList # instList',
         NEW g \in Func, NEW n \in DOMAIN table[g]
  PROVE  n \in DOMAIN table'[g] /\ table'[g][n] = table[g][n]
<1>1. SLTypeOK /\ MapsOK /\ lastUnique \in [Func -> 0 .. MaxUnique]
  BY DEF SLInv, SLTypeOK
<1>2. ASSUME table' = table PROVE n \in DOMAIN table'[g] /\ table'[g][n] = table[g][n]
  BY <1>2
<1>3. ASSUME NEW f \in Func \cup {NoParent}, NEW v \in Named, EnterTable(f, v)
      PROVE  n \in DOMAIN table'[g] /\ table'[g][n] = table[g][n]
  BY <1>1, <1>3, EnterFacts
<1>4. ASSUME NEW v \in Named, NEW m \in Given, SetName(v, m) \/ SetNameOfVoid(v, m)
      PROVE  FALSE
  BY <1>4 DEF SetName, SetNameOfVoid, Exit
<1>5. ASSUME NEW i \in Inst, NEW b \in Block, NEW p \in 1 .. Len(instList[b]) + 1,
             InsertInst(b, p, i)
      PROVE  n \in DOMAIN table'[g] /\ table'[g][n] = table[g][n]
  <2>1. EnterTable(blockParent[b], i) /\ blockParent[b] \in Func \cup {NoParent} /\ i \in Named
    BY <1>1, <1>5 DEF InsertInst, SLTypeOK, Named
  <2> QED BY <1>3, <2>1
<1>6. ASSUME NEW b \in Block, NEW f \in Func, NEW p \in 1 .. Len(blockList[f]) + 1,
             InsertBlock(f, p, b)
      PROVE  n \in DOMAIN table'[g] /\ table'[g][n] = table[g][n]
  <2>1. EnterTable(f, b) /\ b \in Named
    BY <1>6 DEF InsertBlock, Named
  <2> QED BY <1>3, <2>1
<1>7. ASSUME NEW v \in Named, InsertFails(v) PROVE FALSE
  BY <1>7 DEF InsertFails, Exit
<1>8. CASE (\E i \in Inst : RemoveInst(i)) \/ (\E b \in Block : RemoveBlock(b))
  BY <1>2, <1>8 DEF RemoveInst, RemoveBlock
<1> QED BY <1>4, <1>5, <1>6, <1>7, <1>8 DEF SLNext

(* addNodeToList never gives a name that is taken to another value, however *)
(* the names and the numbers of makeUniqueName fall.                        *)
THEOREM EntriesSurviveInsertion == SLSpec => InsertionKeepsEntries
<1>1. SLInv /\ [SLNext]_slvars =>
        [(blockList # blockList' \/ instList # instList') =>
           \A f \in Func : \A n \in DOMAIN table[f] :
             n \in DOMAIN table'[f] /\ table'[f][n] = table[f][n]]_slvars
  BY InsertionStep
<1> QED BY <1>1, SLInitInv, SLNextInv, PTL DEF SLSpec, InsertionKeepsEntries
=============================================================================

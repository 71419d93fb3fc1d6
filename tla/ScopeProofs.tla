----------------------------- MODULE ScopeProofs -----------------------------
(***************************************************************************)
(* What the discipline of scopes guarantees, for every set of names and    *)
(* symbols and every sequence of steps, and that SymbolTable implements it *)
(* whoever calls its methods in whatever order, endScope only after a      *)
(* beginScope it closes.                                                   *)
(***************************************************************************)
EXTENDS ScopeDiscipline, TLAPS

(* The inductive invariant: the scopes are a sequence, and their number    *)
(* follows the depth.                                                      *)
Inv == GlobalScopeStays /\ IsSeq(table.scopes)

(* The initial table, with the global scope only.                          *)
LEMMA InvInit == Init => Inv
BY DEF Init, Inv, GlobalScopeStays, IsSeq, Height

(* Declaring keeps the number of scopes, entering and leaving change it    *)
(* together with the depth.                                                *)
LEMMA InvNext == Inv /\ [Next]_table => Inv'
<1> SUFFICES ASSUME Inv, [Next]_table PROVE Inv'
    OBVIOUS
<1>1. CASE Declare
    BY <1>1 DEF Declare, Keeps, Inv, GlobalScopeStays, IsSeq, Height
<1>2. CASE Enter
    BY <1>2 DEF Enter, Keeps, Inv, GlobalScopeStays, IsSeq, Height
<1>3. CASE Leave
  <2> DEFINE rest == [i \in 1 .. Height - 1 |-> table.scopes[i]]
  <2>1. Height \in Nat /\ Height = table.depth + 1 /\ table.depth \in Nat
      BY DEF Inv, GlobalScopeStays, IsSeq, Height
  <2>2. Len(rest) = Height - 1
      BY <2>1
  <2>3. table'.scopes = rest /\ table'.depth = table.depth - 1 /\ table.depth > 0
      BY <1>3 DEF Leave
  <2>4. IsSeq(rest)
      BY <2>1, <2>2 DEF IsSeq
  <2> QED BY <2>1, <2>2, <2>3, <2>4 DEF Inv, GlobalScopeStays, Height
<1>4. CASE UNCHANGED table
    BY <1>4 DEF Inv, GlobalScopeStays, IsSeq, Height
<1> QED BY <1>1, <1>2, <1>3, <1>4 DEF Next

(* The global scope is never popped (SymbolTable::endScope), whatever      *)
(* names are declared and however scopes are opened and closed.            *)
THEOREM GlobalScope == Spec => []GlobalScopeStays
<1>1. Inv => GlobalScopeStays
    BY DEF Inv
<1> QED BY <1>1, InvInit, InvNext, PTL DEF Spec

(* One step keeps the symbols of the scopes that stay open.                *)
LEMMA StepKeepsSymbols ==
  ASSUME Inv, Next
  PROVE  \A i \in 1 .. Height : i <= Len(table'.scopes) =>
           Extends(table'.scopes[i], table.scopes[i])
<1> SUFFICES ASSUME NEW i \in 1 .. Height, i <= Len(table'.scopes)
             PROVE  Extends(table'.scopes[i], table.scopes[i])
    OBVIOUS
<1>0. Height \in Nat
    BY DEF Inv, GlobalScopeStays
<1>1. ASSUME Keeps PROVE Extends(table'.scopes[i], table.scopes[i])
  <2>1. CASE i = Height
      BY <1>1, <2>1 DEF Keeps
  <2>2. CASE i # Height
    <3>1. table'.scopes[i] = table.scopes[i]
        BY <1>0, <1>1, <2>2 DEF Keeps
    <3> QED BY <3>1 DEF Extends
  <2> QED BY <2>1, <2>2
<1>2. CASE Declare
    BY <1>1, <1>2 DEF Declare
<1>3. CASE Enter
    BY <1>1, <1>3 DEF Enter
<1>4. CASE Leave
  <2>1. table'.scopes = [j \in 1 .. Height - 1 |-> table.scopes[j]]
      BY <1>4 DEF Leave
  <2>2. i \in 1 .. Height - 1
      BY <1>0, <2>1
  <2>3. table'.scopes[i] = table.scopes[i]
      BY <2>1, <2>2
  <2> QED BY <2>3 DEF Extends
<1> QED BY <1>2, <1>3, <1>4 DEF Next

(* A name bound in a scope keeps its symbol while the scope is open: what  *)
(* getValue finds there after inner scopes were opened and closed is what  *)
(* insert put there.                                                       *)
THEOREM SymbolsStayBound == Spec => BoundStaysBound
<1>1. Inv /\ [Next]_table =>
        [\A i \in 1 .. Height : i <= Len(table'.scopes) =>
           Extends(table'.scopes[i], table.scopes[i])]_table
    BY StepKeepsSymbols
<1> QED BY <1>1, InvInit, InvNext, PTL DEF Spec, BoundStaysBound
-----------------------------------------------------------------------------
(* The methods of SymbolTable.                                             *)
CONSTANTS Name, Sym

ST == INSTANCE ScopeTable

(* The types of the table. A scope maps some names to symbols.             *)
Tables == [scopes : Seq(ST!Scope(Sym)), depth : Nat]

(* A call of a method that changes the table.                              *)
InsertCall == \E n \in Name, x \in Sym : table' = ST!Insert(table, n, x)
BeginCall  == table' = ST!BeginScope(table)
EndCall    == table.depth > 0 /\ table' = ST!EndScope(table)

TableInit == table = ST!NewTable
TableNext == InsertCall \/ BeginCall \/ EndCall
TableSpec == TableInit /\ [][TableNext]_table

TableInv == table \in Tables /\ GlobalScopeStays

(* A sequence is the function of its elements.                             *)
LEMMA SeqIsFunction ==
  ASSUME NEW S, NEW s \in Seq(S)
  PROVE  IsSeq(s) /\ DOMAIN s = 1 .. Len(s) /\ \A i \in 1 .. Len(s) : s[i] \in S
BY DEF IsSeq

(* Binding a name that is free in a scope gives a scope that extends it.   *)
LEMMA BindExtends ==
  ASSUME NEW s \in ST!Scope(Sym), NEW n \in Name, NEW x \in Sym, n \notin DOMAIN s
  PROVE  ST!Bind(s, n, x) \in ST!Scope(Sym) /\ Extends(ST!Bind(s, n, x), s)
<1>1. PICK D \in SUBSET Name : s \in [D -> Sym]
  BY DEF ST!Scope
<1>2. DOMAIN s \cup {n} \in SUBSET Name /\ ST!Bind(s, n, x) \in [DOMAIN s \cup {n} -> Sym]
  BY <1>1 DEF ST!Bind
<1>3. ST!Bind(s, n, x) \in ST!Scope(Sym)
  BY <1>2 DEF ST!Scope
<1>4. Extends(ST!Bind(s, n, x), s)
  BY DEF Extends, ST!Bind
<1> QED BY <1>3, <1>4

(* insert declares a name in the innermost scope, or changes nothing.      *)
LEMMA InsertDeclares ==
  ASSUME TableInv, InsertCall
  PROVE  [Declare]_table /\ TableInv'
<1>1. PICK n \in Name, x \in Sym : table' = ST!Insert(table, n, x)
  BY DEF InsertCall
<1> DEFINE h == Len(table.scopes)
           s == table.scopes[h]
           new == [table.scopes EXCEPT ![h] = ST!Bind(@, n, x)]
<1>2. /\ table = [scopes |-> table.scopes, depth |-> table.depth]
      /\ table.scopes \in Seq(ST!Scope(Sym)) /\ table.depth \in Nat /\ h = table.depth + 1
  BY DEF TableInv, Tables, GlobalScopeStays, Height
<1>3. h \in 1 .. h /\ s \in ST!Scope(Sym)
  BY <1>2, SeqIsFunction
<1>4. CASE n \in DOMAIN s
  <2>1. table' = table
    BY <1>1, <1>4 DEF ST!Insert, ST!IsInCurrentScope, ST!Innermost
  <2> QED BY <2>1 DEF TableInv, GlobalScopeStays, Height
<1>5. CASE n \notin DOMAIN s
  <2>1. table' = [scopes |-> new, depth |-> table.depth]
    BY <1>1, <1>2, <1>5 DEF ST!Insert, ST!IsInCurrentScope, ST!Innermost
  <2>2. ST!Bind(s, n, x) \in ST!Scope(Sym) /\ Extends(ST!Bind(s, n, x), s)
    BY <1>3, <1>5, BindExtends
  <2>3. new \in Seq(ST!Scope(Sym)) /\ Len(new) = h
    BY <1>2, <1>3, <2>2
  <2>4. new[h] = ST!Bind(s, n, x) /\ \A i \in 1 .. h - 1 : new[i] = table.scopes[i]
    BY <1>2, <1>3, SeqIsFunction
  <2> HIDE DEF new
  <2>5. table'.scopes = new /\ table'.depth = table.depth
    BY <2>1
  <2>6. Keeps
    BY <2>2, <2>3, <2>4, <2>5, SeqIsFunction DEF Keeps, Height
  <2>7. Declare
    BY <2>1, <2>3, <2>5, <2>6 DEF Declare, Height
  <2>8. TableInv'
    BY <1>2, <2>1, <2>3, <2>5 DEF TableInv, Tables, GlobalScopeStays, Height
  <2> QED BY <2>7, <2>8
<1> QED BY <1>4, <1>5

(* beginScope opens a scope that binds nothing.                            *)
LEMMA BeginEnters ==
  ASSUME TableInv, BeginCall
  PROVE  Enter /\ TableInv'
<1> DEFINE h == Len(table.scopes)
           new == Append(table.scopes, ST!EmptyScope)
<1>1. /\ table.scopes \in Seq(ST!Scope(Sym)) /\ table.depth \in Nat /\ h = table.depth + 1
      /\ table' = [scopes |-> new, depth |-> table.depth + 1]
  BY DEF TableInv, Tables, GlobalScopeStays, Height, BeginCall, ST!BeginScope
<1>2. ST!EmptyScope \in ST!Scope(Sym)
  <2> DEFINE none == {}
  <2>1. none \in SUBSET Name
    OBVIOUS
  <2>2. ST!EmptyScope \in [none -> Sym]
    BY DEF ST!EmptyScope
  <2> HIDE DEF none
  <2> QED BY <2>1, <2>2 DEF ST!Scope
<1>3. new \in Seq(ST!Scope(Sym)) /\ Len(new) = h + 1 /\ \A i \in 1 .. h : new[i] = table.scopes[i]
  BY <1>1, <1>2
<1> HIDE DEF new
<1>4. table'.scopes = new /\ table'.depth = table.depth + 1
  BY <1>1
<1>5. Keeps
  <2>1. h \in 1 .. h /\ \A i \in 1 .. h - 1 : i \in 1 .. h
    BY <1>1
  <2>2. Extends(new[h], table.scopes[h])
    BY <1>3, <2>1 DEF Extends
  <2> QED BY <1>3, <1>4, <2>1, <2>2, SeqIsFunction DEF Keeps, Height
<1>6. Enter
  BY <1>1, <1>3, <1>4, <1>5 DEF Enter, Height
<1>7. TableInv'
  BY <1>1, <1>3, <1>4 DEF TableInv, Tables, GlobalScopeStays, Height
<1> QED BY <1>6, <1>7

(* endScope closes the innermost scope, which is not the global one.       *)
LEMMA EndLeaves ==
  ASSUME TableInv, EndCall
  PROVE  Leave /\ TableInv'
<1> DEFINE h == Len(table.scopes)
           new == SubSeq(table.scopes, 1, h - 1)
<1>1. /\ table.scopes \in Seq(ST!Scope(Sym)) /\ table.depth \in Nat /\ h = table.depth + 1
      /\ table.depth > 0 /\ table' = [scopes |-> new, depth |-> table.depth - 1]
  BY DEF TableInv, Tables, GlobalScopeStays, Height, EndCall, ST!EndScope
<1>2. new \in Seq(ST!Scope(Sym)) /\ Len(new) = h - 1 /\ \A i \in 1 .. h - 1 : new[i] = table.scopes[i]
  BY <1>1
<1>3. new = [i \in 1 .. h - 1 |-> table.scopes[i]]
  <2> HIDE DEF new, h
  <2> QED BY <1>2, SeqIsFunction DEF IsSeq
<1> HIDE DEF new
<1>4. Leave
  BY <1>1, <1>3 DEF Leave, Height
<1>5. TableInv'
  BY <1>1, <1>2 DEF TableInv, Tables, GlobalScopeStays, Height
<1> QED BY <1>4, <1>5

(* SymbolTable implements the discipline: whatever is inserted, and however *)
(* scopes are opened and closed, a call of a method is a step of it or     *)
(* changes nothing.                                                        *)
THEOREM TableFollowsDiscipline == TableSpec => Spec
<1>1. TableInit => Init /\ TableInv
  <2> SUFFICES ASSUME TableInit PROVE Init /\ TableInv
    OBVIOUS
  <2>1. table = [scopes |-> <<ST!EmptyScope>>, depth |-> 0]
    BY DEF TableInit, ST!NewTable
  <2>2. ST!EmptyScope \in ST!Scope(Sym)
    <3> DEFINE none == {}
    <3>1. none \in SUBSET Name /\ ST!EmptyScope \in [none -> Sym]
      BY DEF ST!EmptyScope
    <3> HIDE DEF none
    <3> QED BY <3>1 DEF ST!Scope
  <2>3. Init
    BY <2>1 DEF Init, ST!EmptyScope
  <2>4. <<ST!EmptyScope>> \in Seq(ST!Scope(Sym)) /\ Len(<<ST!EmptyScope>>) = 1
    BY <2>2
  <2>5. TableInv
    BY <2>1, <2>4 DEF TableInv, Tables, GlobalScopeStays, Height
  <2> QED BY <2>3, <2>5
<1>2. TableInv /\ [TableNext]_table => [Next]_table /\ TableInv'
  <2> SUFFICES ASSUME TableInv, [TableNext]_table PROVE [Next]_table /\ TableInv'
    OBVIOUS
  <2>1. CASE InsertCall
    BY <2>1, InsertDeclares DEF Next
  <2>2. CASE BeginCall
    BY <2>2, BeginEnters DEF Next
  <2>3. CASE EndCall
    BY <2>3, EndLeaves DEF Next
  <2>4. CASE UNCHANGED table
    BY <2>4 DEF TableInv, GlobalScopeStays, Height
  <2> QED BY <2>1, <2>2, <2>3, <2>4 DEF TableNext
<1> QED BY <1>1, <1>2, PTL DEF TableSpec, Spec
=============================================================================

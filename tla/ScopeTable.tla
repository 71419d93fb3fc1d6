----------------------------- MODULE ScopeTable -----------------------------
(***************************************************************************)
(* symbolTable/symbolTable.cpp: the scopes of the type checker, as         *)
(* operators on a table [scopes, depth]. A scope is a partial function     *)
(* from names to symbols.                                                  *)
(***************************************************************************)
EXTENDS Integers, Sequences

CONSTANTS Name, Sym

Scope(S) == UNION {[D -> S] : D \in SUBSET Name}
EmptyScope == [n \in {} |-> 0]

NewTable == [scopes |-> <<EmptyScope>>, depth |-> 0]

Innermost(t) == t.scopes[Len(t.scopes)]
IsInCurrentScope(t, n) == n \in DOMAIN Innermost(t)
IsInGlobal(t, n) == n \in DOMAIN t.scopes[1]
GetFromGlobal(t, n) == t.scopes[1][n]
Exists(t, n) == \E i \in DOMAIN t.scopes : n \in DOMAIN t.scopes[i]

(* getValue looks from the innermost scope outwards.                       *)
ScopeOf(t, n) == CHOOSE i \in DOMAIN t.scopes :
                   /\ n \in DOMAIN t.scopes[i]
                   /\ \A j \in DOMAIN t.scopes : j > i => n \notin DOMAIN t.scopes[j]
GetValue(t, n) == t.scopes[ScopeOf(t, n)][n]

(* insert keeps the first symbol of a name in a scope.                     *)
Bind(s, n, x) == [m \in DOMAIN s \cup {n} |-> IF m = n THEN x ELSE s[m]]
Insert(t, n, x) ==
  IF IsInCurrentScope(t, n) THEN t
  ELSE [t EXCEPT !.scopes[Len(t.scopes)] = Bind(@, n, x)]

BeginScope(t) == [t EXCEPT !.scopes = Append(@, EmptyScope), !.depth = @ + 1]

\* Slip: the depth stops one early.
EndScopeAboveOne(t) == [scopes |-> SubSeq(t.scopes, 1, Len(t.scopes) - 1),
                        depth  |-> IF t.depth > 1 THEN t.depth - 1 ELSE t.depth]

(* endScope stops the depth at zero and pops a scope in any case.          *)
EndScope(t) == [scopes |-> SubSeq(t.scopes, 1, Len(t.scopes) - 1),
                depth  |-> IF t.depth > 0 THEN t.depth - 1 ELSE 0]
=============================================================================

-------------------------- MODULE ScopeDiscipline --------------------------
(***************************************************************************)
(* What a user of the scope table may do with it, whatever it looks up: a  *)
(* table of nested scopes in which a name bound in an open scope stays     *)
(* bound to the same symbol, and the global scope stays open. The type     *)
(* checker is shown to follow it (Frontend), and what follows from it is   *)
(* proved (ScopeProofs).                                                   *)
(***************************************************************************)
EXTENDS Integers, Sequences

VARIABLE table          \* [scopes, depth], as in ScopeTable

Init == table = [scopes |-> <<[n \in {} |-> 0]>>, depth |-> 0]

(* t grows to u: no name of t is lost or rebound.                          *)
Extends(u, t) == /\ DOMAIN t \subseteq DOMAIN u
                 /\ \A n \in DOMAIN t : u[n] = t[n]

Height == Len(table.scopes)

(* The scopes below the innermost open one do not change, that one grows.  *)
IsSeq(s) == Len(s) \in Nat /\ s = [i \in 1 .. Len(s) |-> s[i]]
Keeps == /\ IsSeq(table'.scopes)
         /\ \A i \in 1 .. Height - 1 : table'.scopes[i] = table.scopes[i]
         /\ Extends(table'.scopes[Height], table.scopes[Height])

(* The operations: declare names in the innermost scope, open a scope and  *)
(* declare names in it, close the innermost scope.                         *)
Declare == /\ table' = [scopes |-> table'.scopes, depth |-> table.depth]
           /\ Len(table'.scopes) = Height
           /\ Keeps
Enter   == /\ table' = [scopes |-> table'.scopes, depth |-> table.depth + 1]
           /\ Len(table'.scopes) = Height + 1
           /\ Keeps
Leave   == /\ table.depth > 0
           /\ table' = [scopes |-> [i \in 1 .. Height - 1 |-> table.scopes[i]],
                        depth  |-> table.depth - 1]

Next == Declare \/ Enter \/ Leave
Spec == Init /\ [][Next]_table

(* The depth counts the scopes above the global one: the global scope is   *)
(* never popped, so SymbolTable::endScope never meets an empty table and   *)
(* insert, isInCurrentScope and isInGlobal always have a scope.            *)
GlobalScopeStays == table.depth \in Nat /\ Height = table.depth + 1

(* A name bound in a scope keeps its symbol as long as the scope is open.  *)
BoundStaysBound ==
  [][\A i \in 1 .. Height : i <= Len(table'.scopes) =>
       Extends(table'.scopes[i], table.scopes[i])]_table
=============================================================================
